---- MODULE Spec2Model ----
(***************************************************************************)
(* Model of the two chat API routes of the RAG demo:                       *)
(*   - the semantic (direct) route: embed -> k-NN search -> context ->     *)
(*     chat completion  (src/unnamed/part_000, POST)                       *)
(*   - the hybrid (delegate) route: forward to Langflow and normalise its  *)
(*     answer             (src/frontend/src/app/api/chat/route.ts, POST)   *)
(* A JavaScript string is a sequence of pieces (Text); a template literal  *)
(* or a + is the concatenation \o.  Every await of a handler is a step.    *)
(***************************************************************************)
EXTENDS Integers, Sequences, FiniteSets, TLC

VARIABLES
    env,          \* process.env as read by the module-level consts
    route,        \* which POST handler serves the current request
    pc,           \* the await the handler is suspended at
    body,         \* outcome of request.json()
    message,      \* const { message } = body
    session_id,   \* const { session_id } = body (hybrid route)
    queryVector,  \* embeddingResponse.data[0].embedding
    searchResponse, \* the Response of the search fetch
    hits,         \* searchData.hits?.hits || []
    context,      \* the joined context window
    langflowPayload, \* payload sent to Langflow (hybrid route)
    langflowResponse, \* the Response of the Langflow fetch
    responseText, \* the body read from langflowResponse
    searchData,   \* what searchResponse.json() resolved to
    completion,   \* how openai.chat.completions.create settled
    caught,       \* the error caught by the handler's outer catch
    calls,        \* outbound calls made while serving the current request
    responses,    \* NextResponse.json(...) values returned for the request
    processEnv,   \* process.env of the process that holds the index client
    client,       \* let client of lib/opensearch.ts
    clientCopy,   \* let client of the module text that follows the script
    script,       \* the index-creation script: where it is, its client
    returned,     \* what the last getOpenSearchClient call returned or threw
    constructed,  \* how many times each module ran new Client(...)
    messages,     \* useState<Message[]>([]) of the chat page
    input,        \* useState('') of the chat page: the textarea's value
    isLoading,    \* useState(false) of the chat page
    searchMode,   \* useState<SearchMode>('hybrid') of the chat page
    uiPc,         \* the await handleSubmit is suspended at
    uiResponse,   \* how the fetch of the last accepted submit settled
    requests      \* the fetches the chat page has sent

\* the variables of the two route handlers
routeVars == <<env, route, pc, body, message, session_id, queryVector,
          searchResponse, hits, context, langflowPayload, langflowResponse,
          responseText, searchData, completion, caught, calls, responses>>

\* the variables of the client module and of the script
clientVars == <<processEnv, client, clientCopy, script, returned, constructed>>

\* the variables of the chat page
uiVars == <<messages, input, isLoading, searchMode, uiPc, uiResponse, requests>>

vars == <<routeVars, clientVars, uiVars>>

----------------------------------------------------------------------------
\* Bounds of the model

\* largest OPENSEARCH_K tried, hence the most hits the index returns
MaxK == 2

\* most innerOutput entries, over all outputs[], of a Langflow answer tried
MaxInner == 2

\* most chat requests the page sends
MaxTurns == 2

----------------------------------------------------------------------------
\* JavaScript values

Undefined == [t |-> "undefined"]

Null == [t |-> "null"]

Str(s) == [t |-> "string", s |-> s]

Arr(a) == [t |-> "array", a |-> a]

\* ToBoolean of the values the handlers test with !x, x || y and if (x)
Truthy(v) ==
    CASE v.t = "undefined" -> FALSE
      [] v.t = "null"      -> FALSE
      [] v.t = "string"    -> v.s # <<>>
      [] OTHER             -> TRUE

\* a || b
Or(a, b) == IF Truthy(a) THEN a ELSE b

\* a thrown Error object
Err(msg) == [message |-> msg]

Range(s) == {s[i] : i \in 1..Len(s)}

\* String.prototype.includes for a piece of a text
Includes(text, piece) == piece \in Range(text)

RECURSIVE Join(_, _)
\* Array.prototype.join(sep) of an array of texts
Join(parts, sep) ==
    IF Len(parts) = 0 THEN <<>>
    ELSE IF Len(parts) = 1 THEN parts[1]
    ELSE parts[1] \o sep \o Join(Tail(parts), sep)

----------------------------------------------------------------------------
\* Module-level configuration of the semantic route

RECURSIVE normalizeOpenSearchUrl(_)
\* url.replace(/\/+$/, '')
normalizeOpenSearchUrl(url) ==
    IF Len(url) > 0 /\ url[Len(url)] = "/"
    THEN normalizeOpenSearchUrl(SubSeq(url, 1, Len(url) - 1))
    ELSE url

OPENSEARCH_URL == normalizeOpenSearchUrl(env.OPENSEARCH_URL)

INDEX_NAME == <<"rag_demo">>

OPENSEARCH_USERNAME == env.OPENSEARCH_USERNAME

OPENSEARCH_PASSWORD == env.OPENSEARCH_PASSWORD

OPENAI_API_KEY == env.OPENAI_API_KEY

OPENAI_EMBEDDING_MODEL == <<"text-embedding-3-small">>

OPENAI_LLM_MODEL == <<"gpt-4o-mini">>

OPENSEARCH_VECTOR_FIELD == <<"embeddings">>

OPENSEARCH_K == env.OPENSEARCH_K

----------------------------------------------------------------------------
\* The environments, requests and collaborator outcomes tried

UrlValues == { <<>>, <<"/">>, <<"https://os.example:9200">>,
               <<"https://os.example:9200", "/", "/">> }

ApiKeyValues == { <<>>, <<"sk-test">> }

\* the settings the semantic route reads
SemanticEnvValues ==
    [ OPENAI_API_KEY : ApiKeyValues,
      OPENSEARCH_URL : UrlValues,
      OPENSEARCH_USERNAME : {Undefined, Str(<<"admin">>)},
      OPENSEARCH_PASSWORD : {Undefined, Str(<<"s3cret">>)},
      OPENSEARCH_K   : 1..MaxK ]

\* a complete configuration of the semantic route
ConfiguredSemanticEnv ==
    [ OPENAI_API_KEY |-> <<"sk-test">>,
      OPENSEARCH_URL |-> <<"https://os.example:9200">>,
      OPENSEARCH_USERNAME |-> Undefined,
      OPENSEARCH_PASSWORD |-> Undefined,
      OPENSEARCH_K |-> 1 ]

\* the environments tried: the two routes read disjoint settings, so the
\* settings of the semantic route vary while LANGFLOW_API_KEY is unset, and
\* LANGFLOW_API_KEY is set under one configuration of the semantic route
EnvValues ==
    { [ OPENAI_API_KEY |-> e.OPENAI_API_KEY,
        OPENSEARCH_URL |-> e.OPENSEARCH_URL,
        OPENSEARCH_USERNAME |-> e.OPENSEARCH_USERNAME,
        OPENSEARCH_PASSWORD |-> e.OPENSEARCH_PASSWORD,
        OPENSEARCH_K |-> e.OPENSEARCH_K,
        LANGFLOW_API_KEY |-> <<>> ] : e \in SemanticEnvValues }
    \cup { [ OPENAI_API_KEY |-> ConfiguredSemanticEnv.OPENAI_API_KEY,
             OPENSEARCH_URL |-> ConfiguredSemanticEnv.OPENSEARCH_URL,
             OPENSEARCH_USERNAME |-> ConfiguredSemanticEnv.OPENSEARCH_USERNAME,
             OPENSEARCH_PASSWORD |-> ConfiguredSemanticEnv.OPENSEARCH_PASSWORD,
             OPENSEARCH_K |-> ConfiguredSemanticEnv.OPENSEARCH_K,
             LANGFLOW_API_KEY |-> <<"lf-key">> ] }

\* what request.json() does: throws on a body that is not JSON, or resolves
BodyValues ==
    { [ok |-> FALSE, err |-> Err(<<"Unexpected token h in JSON at position 0">>)] }
    \cup { [ok |-> TRUE, value |-> Null] }
    \cup { [ok |-> TRUE, value |-> [t |-> "object", message |-> m, session_id |-> s]] :
             m \in {Undefined, Str(<<>>), Str(<<"what is the APR?">>)},
             s \in {Undefined, Str(<<"sess-1">>)} }

\* number of characters of a hit's text shown in retrieved_docs
DisplayLen == 500

\* a hit's text is a sequence of characters: one short, one longer than
\* the display length
HitTexts == { <<"A", "P", "R">>, [i \in 1..(DisplayLen + 1) |-> "x"] }

\* one element of hits.hits: { _source: { text, file_path? }, _score }
HitValues ==
    [ text : HitTexts, file_path : {Undefined, Str(<<"docs/a.pdf">>)}, score : {1, 2} ]

\* the index returns at most k hits, ranked by descending score
HitLists(k) ==
    { h \in UNION { [1..n -> HitValues] : n \in 0..k } :
        \A i \in 1..(Len(h) - 1) : h[i].score >= h[i + 1].score }

\* what searchResponse.json() resolves to
SearchDataValues(k) ==
    { Null, [t |-> "object", hits |-> Undefined],
      [t |-> "object", hits |-> [t |-> "object", hits |-> Undefined]] }
    \cup { [t |-> "object", hits |-> [t |-> "object", hits |-> Arr(h)]] : h \in HitLists(k) }

\* embeddingResponse.data of a resolved embeddings call
EmbeddingDataValues == { <<>>, <<[embedding |-> <<1, 2, 3, 4, 5, 6>>]>> }

\* status of the Response the search fetch resolves to
SearchStatusValues == {200, 404, 503}

\* completion.choices[0]?.message?.content of a resolved chat completion
ContentValues == { Undefined, Null, Str(<<>>), Str(<<"The APR is 19.9%.">>) }

\* uuidv4() results
UuidValues == { <<"0b0e7a3c-uuid">> }

\* status of the Response the Langflow fetch resolves to
LangflowStatusValues == {200, 401, 503}

\* JSON.parse threw a SyntaxError
NotJson == [t |-> "SyntaxError"]

\* an innerOutput whose text paths results.message.text (rmt), results.text
\* (rt) and message.text (mt) are given by p; i, j tell the entries apart
Inner(p, i, j) ==
    [rmt |-> IF p.rmt = "text" THEN Str(<<"rmt", ToString(i), ToString(j)>>)
             ELSE IF p.rmt = "empty" THEN Str(<<>>) ELSE Undefined,
     rt  |-> IF p.rt = "text" THEN Str(<<"rt", ToString(i), ToString(j)>>)
             ELSE IF p.rt = "empty" THEN Str(<<>>) ELSE Undefined,
     mt  |-> IF p.mt = "text" THEN Str(<<"mt", ToString(i), ToString(j)>>)
             ELSE IF p.mt = "empty" THEN Str(<<>>) ELSE Undefined]

InnerPatterns ==
    { [rmt |-> "absent", rt |-> "absent", mt |-> "absent"],
      [rmt |-> "text",   rt |-> "text",   mt |-> "text"],
      [rmt |-> "empty",  rt |-> "text",   mt |-> "text"],
      [rmt |-> "absent", rt |-> "absent", mt |-> "text"] }

RECURSIVE Total(_)
\* number of innerOutputs of a shape: sz[i] is the length of outputs[i].outputs
Total(sz) == IF Len(sz) = 0 THEN 0 ELSE sz[1] + Total(Tail(sz))

Shapes ==
    { sz \in UNION { [1..n -> 0..MaxInner] : n \in 0..MaxInner } :
        Total(sz) <= MaxInner }

\* the outputs array of shape sz whose innerOutputs follow the patterns ps
OutputsOf(sz, ps) ==
    Arr([i \in 1..Len(sz) |->
          [outputs |-> Arr([j \in 1..sz[i] |->
                             Inner(ps[Total(SubSeq(sz, 1, i - 1)) + j], i, j)])]])

OutputsArrays ==
    UNION { { OutputsOf(sz, ps) : ps \in [1..Total(sz) -> InnerPatterns] } : sz \in Shapes }

\* langflowData.result: a string, or an object with or without a text field
ResultValues ==
    { Undefined, Str(<<"R">>),
      [t |-> "object", text |-> Str(<<"RT">>), data |-> <<"D">>],
      [t |-> "object", text |-> Undefined, data |-> <<"D">>] }

LangflowObject(outputs, result, text, detail, msg, error) ==
    [t |-> "object", outputs |-> outputs, result |-> result, text |-> text,
     detail |-> detail, message |-> msg, error |-> error]

\* outputs arrays that yield no text and one that does
SomeOutputs ==
    { Arr(<<>>),
      Arr(<<[outputs |-> Undefined]>>),
      OutputsOf(<<1>>, <<[rmt |-> "absent", rt |-> "absent", mt |-> "absent"]>>),
      OutputsOf(<<1>>, <<[rmt |-> "absent", rt |-> "absent", mt |-> "text"]>>) }

\* what JSON.parse makes of the JSON bodies tried: null, answers in the three
\* shapes, an outputs field that is not iterable, and error objects
LangflowJsonValues ==
    { Null }
    \cup { LangflowObject(o, Undefined, Undefined, Undefined, Undefined, Undefined) :
             o \in OutputsArrays \cup { [t |-> "object"] } }
    \cup { LangflowObject(o, r, x, Undefined, Undefined, Undefined) :
             o \in SomeOutputs \cup {Undefined}, r \in ResultValues,
             x \in {Undefined, Str(<<>>), Str(<<"T">>)} }
    \cup { LangflowObject(Undefined, Undefined, Undefined, d, m, e) :
             d \in {Undefined, Str(<<>>), Str(<<"invalid key">>)},
             m \in {Undefined, Str(<<>>), Str(<<"flow not found">>)},
             e \in {Undefined, Str(<<"forbidden">>)} }

\* bodies that are not JSON: HTML pages and other text, as characters
NonJsonTexts ==
    { <<"<", "!", "D", "O", "C", "T", "Y", "P", "E", " ", "h", "t", "m", "l", ">">>,
      <<" ", "\n", "<", "h", "t", "m", "l", ">", "\n">>,
      <<"<", "H", "t", "m", "L", " ", "l", "a", "n", "g", ">">>,
      <<"<", "h", "1", ">", "4", "0", "4">>,
      <<"O", "K">>,
      <<>> }

\* a body read by langflowResponse.text(): its characters and what
\* JSON.parse makes of them
LangflowBodyValues ==
    { [raw |-> x, json |-> NotJson] : x \in NonJsonTexts }
    \cup { [raw |-> <<"{", "}">>, json |-> v] : v \in LangflowJsonValues \ {Null} }
    \cup { [raw |-> <<"n", "u", "l", "l">>, json |-> Null] }

----------------------------------------------------------------------------
\* Responses

\* NextResponse.json(body, { status })
Json(b, status) == [status |-> status, body |-> b]

\* the failure is reported in the answer field
CatchAllAsAnswer(error) == Json([answer |-> error.message], 500)

\* catch (error) { ... error instanceof Error ? error.message : ... , 500 }
CatchAll(error) == Json([error |-> error.message], 500)

\* the handler returns r
Respond(r) ==
    /\ responses' = Append(responses, r)
    /\ pc' = "done"

\* an error thrown inside the outer try
Throw(error) ==
    /\ caught' = error
    /\ Respond(CatchAll(error))

\* no request has been received yet
RoutesIdle ==
    /\ route = "none"
    /\ pc = "idle"
    /\ body = Undefined
    /\ message = Undefined
    /\ session_id = Undefined
    /\ queryVector = <<>>
    /\ searchResponse = Undefined
    /\ hits = <<>>
    /\ context = <<>>
    /\ langflowPayload = Undefined
    /\ langflowResponse = Undefined
    /\ responseText = Undefined
    /\ searchData = Undefined
    /\ completion = Undefined
    /\ caught = Undefined
    /\ calls = <<>>
    /\ responses = <<>>

\* process.env with none of the client's variables set
UnsetProcessEnv ==
    [OPENSEARCH_URL |-> Undefined,
     OPENSEARCH_USERNAME |-> Undefined,
     OPENSEARCH_PASSWORD |-> Undefined,
     OPENSEARCH_SSL_VERIFY |-> Undefined,
     OPENSEARCH_SSL_REJECT_UNAUTHORIZED |-> Undefined,
     NODE_ENV |-> Undefined]

\* let client: Client | null = null, and the script not started
ClientIdle ==
    /\ client = Null
    /\ clientCopy = Null
    /\ script = [pc |-> "load", client |-> Null]
    /\ returned = Undefined
    /\ constructed = [lib |-> 0, copy |-> 0]

\* the chat page as first rendered
UiIdle ==
    /\ messages = <<>>
    /\ input = <<>>
    /\ isLoading = FALSE
    /\ searchMode = "hybrid"
    /\ uiPc = "idle"
    /\ uiResponse = Undefined
    /\ requests = <<>>

Init ==
    /\ env \in EnvValues
    /\ RoutesIdle
    /\ processEnv = UnsetProcessEnv
    /\ ClientIdle
    /\ UiIdle

\* a request reaches one of the two POST handlers, which awaits request.json()
Request ==
    /\ pc \in {"idle", "done"}
    /\ route' \in {"semantic", "hybrid"}
    /\ pc' = "body"
    /\ body' = Undefined
    /\ message' = Undefined
    /\ session_id' = Undefined
    /\ queryVector' = <<>>
    /\ searchResponse' = Undefined
    /\ hits' = <<>>
    /\ context' = <<>>
    /\ langflowPayload' = Undefined
    /\ langflowResponse' = Undefined
    /\ responseText' = Undefined
    /\ searchData' = Undefined
    /\ completion' = Undefined
    /\ caught' = Undefined
    /\ calls' = <<>>
    /\ responses' = <<>>
    /\ UNCHANGED <<clientVars, uiVars>>
    /\ UNCHANGED env

----------------------------------------------------------------------------
\* The semantic route

MessageRequired == <<"Message is required">>

ApiKeyNotConfigured == <<"OPENAI_API_KEY", " not configured">>

UrlNotConfigured == <<"OPENSEARCH_URL", " not configured. Set it in frontend/.env.local.">>

\* Buffer.from(text).toString('base64') of the credential pairs configured
Base64(text) ==
    CASE text = <<"admin", ":", "s3cret">> -> <<"YWRtaW46czNjcmV0">>
      [] text = <<"admin", ":">>           -> <<"YWRtaW46">>

\* the Authorization header set only when a password is configured too
SearchHeadersNeedPassword ==
    IF Truthy(OPENSEARCH_USERNAME) /\ Truthy(OPENSEARCH_PASSWORD)
    THEN [ContentType |-> <<"application/json">>,
          Authorization |-> <<"Basic ">> \o
              Base64(OPENSEARCH_USERNAME.s \o <<":">> \o OPENSEARCH_PASSWORD.s)]
    ELSE [ContentType |-> <<"application/json">>]

\* the headers of the search request
SearchHeaders ==
    IF Truthy(OPENSEARCH_USERNAME)
    THEN [ContentType |-> <<"application/json">>,
          Authorization |-> <<"Basic ">> \o
              Base64(OPENSEARCH_USERNAME.s \o <<":">> \o Or(OPENSEARCH_PASSWORD, Str(<<>>)).s)]
    ELSE [ContentType |-> <<"application/json">>]

\* the k-NN query with the default number of neighbours written in
SearchQueryFixedK(vector) ==
    [size |-> OPENSEARCH_K,
     source |-> <<"text", "file_path">>,
     knn |-> [field |-> OPENSEARCH_VECTOR_FIELD, vector |-> vector, k |-> 2]]

\* the k-NN query sent to the index
SearchQuery(vector) ==
    [size |-> OPENSEARCH_K,
     source |-> <<"text", "file_path">>,
     knn |-> [field |-> OPENSEARCH_VECTOR_FIELD, vector |-> vector, k |-> OPENSEARCH_K]]

SearchUrl == OPENSEARCH_URL \o <<"/">> \o INDEX_NAME \o <<"/_search">>

\* the validation with the configuration tested before the message
SemanticValidateConfigFirst(value) ==
    IF value = Null THEN
       /\ Throw(Err(<<"Cannot destructure property 'message' of 'body' as it is null.">>))
       /\ UNCHANGED <<message, calls>>
    ELSE
       /\ message' = value.message
       /\ IF OPENAI_API_KEY = <<>> THEN
             /\ Respond(Json([error |-> ApiKeyNotConfigured], 500))
             /\ UNCHANGED <<calls, caught>>
          ELSE IF OPENSEARCH_URL = <<>> THEN
             /\ Respond(Json([error |-> UrlNotConfigured], 500))
             /\ UNCHANGED <<calls, caught>>
          ELSE IF ~Truthy(value.message) THEN
             /\ Respond(Json([error |-> MessageRequired], 400))
             /\ UNCHANGED <<calls, caught>>
          ELSE
             /\ calls' = Append(calls, [to |-> "embedding",
                                        model |-> OPENAI_EMBEDDING_MODEL,
                                        input |-> value.message.s])
             /\ pc' = "embedding"
             /\ UNCHANGED <<responses, caught>>

\* the validation without the test of OPENSEARCH_URL
SemanticValidateNoUrlCheck(value) ==
    IF value = Null THEN
       /\ Throw(Err(<<"Cannot destructure property 'message' of 'body' as it is null.">>))
       /\ UNCHANGED <<message, calls>>
    ELSE
       /\ message' = value.message
       /\ IF ~Truthy(value.message) THEN
             /\ Respond(Json([error |-> MessageRequired], 400))
             /\ UNCHANGED <<calls, caught>>
          ELSE IF OPENAI_API_KEY = <<>> THEN
             /\ Respond(Json([error |-> ApiKeyNotConfigured], 500))
             /\ UNCHANGED <<calls, caught>>
          ELSE
             /\ calls' = Append(calls, [to |-> "embedding",
                                        model |-> OPENAI_EMBEDDING_MODEL,
                                        input |-> value.message.s])
             /\ pc' = "embedding"
             /\ UNCHANGED <<responses, caught>>

\* what the semantic handler does once it holds the parsed body: validation,
\* then the call of openai.embeddings.create
SemanticValidate(value) ==
    IF value = Null THEN
       /\ Throw(Err(<<"Cannot destructure property 'message' of 'body' as it is null.">>))
       /\ UNCHANGED <<message, calls>>
    ELSE
       /\ message' = value.message
       /\ IF ~Truthy(value.message) THEN
             /\ Respond(Json([error |-> MessageRequired], 400))
             /\ UNCHANGED <<calls, caught>>
          ELSE IF OPENAI_API_KEY = <<>> THEN
             /\ Respond(Json([error |-> ApiKeyNotConfigured], 500))
             /\ UNCHANGED <<calls, caught>>
          ELSE IF OPENSEARCH_URL = <<>> THEN
             /\ Respond(Json([error |-> UrlNotConfigured], 500))
             /\ UNCHANGED <<calls, caught>>
          ELSE
             /\ calls' = Append(calls, [to |-> "embedding",
                                        model |-> OPENAI_EMBEDDING_MODEL,
                                        input |-> value.message.s])
             /\ pc' = "embedding"
             /\ UNCHANGED <<responses, caught>>

\* request.json() settles
SemanticBody ==
    /\ route = "semantic" /\ pc = "body"
    /\ \E b \in BodyValues :
        /\ body' = b
        /\ IF ~b.ok THEN
              /\ Throw(b.err)
              /\ UNCHANGED <<message, calls>>
           ELSE SemanticValidate(b.value)
    /\ UNCHANGED <<clientVars, uiVars>>
    /\ UNCHANGED <<env, route, session_id, queryVector, searchResponse, hits,
                   context, langflowPayload, langflowResponse, responseText,
                   searchData, completion>>

\* openai.embeddings.create settles; the search request is sent
SemanticEmbedding ==
    /\ route = "semantic" /\ pc = "embedding"
    /\ \/ \* the provider call rejects
          /\ Throw(Err(<<"401 Incorrect API key provided">>))
          /\ UNCHANGED <<queryVector, calls>>
       \/ \E data \in EmbeddingDataValues :
            IF Len(data) = 0 THEN
               \* data[0] is undefined
               /\ Throw(Err(<<"Cannot read properties of undefined (reading 'embedding')">>))
               /\ UNCHANGED <<queryVector, calls>>
            ELSE
               /\ queryVector' = data[1].embedding
               /\ calls' = Append(calls, [to |-> "search",
                                          url |-> SearchUrl,
                                          method |-> "POST",
                                          headers |-> SearchHeaders,
                                          body |-> SearchQuery(data[1].embedding)])
               /\ pc' = "search"
               /\ UNCHANGED <<responses, caught>>
    /\ UNCHANGED <<clientVars, uiVars>>
    /\ UNCHANGED <<env, route, body, message, session_id, searchResponse, hits,
                   context, langflowPayload, langflowResponse, responseText,
                   searchData, completion>>

\* the unreachable message without the endpoint
UnreachableNoUrl ==
    <<"Failed to reach OpenSearch. ">>
    \o <<"Check OPENSEARCH_URL and whether the cluster is reachable from this machine.">>

Unreachable ==
    <<"Failed to reach OpenSearch at ">> \o OPENSEARCH_URL \o <<" (index: ">>
    \o INDEX_NAME \o <<"). ">>
    \o <<"Check OPENSEARCH_URL and whether the cluster is reachable from this machine.">>

\* every status counts as a success
OkAlways(status) == status >= 100

\* Response.ok
Ok(status) == status >= 200 /\ status <= 299

\* the search fetch settles; the body of the Response is read
SemanticSearch ==
    /\ route = "semantic" /\ pc = "search"
    /\ \/ \* fetch rejects: caught by the inner try
          /\ searchResponse' = [t |-> "rejected"]
          /\ Respond(Json([error |-> Unreachable], 502))
       \/ \E status \in SearchStatusValues :
            /\ searchResponse' = [t |-> "response", status |-> status]
            /\ pc' = IF ~Ok(status) THEN "searchText" ELSE "searchJson"
            /\ UNCHANGED responses
    /\ UNCHANGED <<clientVars, uiVars>>
    /\ UNCHANGED <<env, route, body, message, session_id, queryVector, hits,
                   context, langflowPayload, langflowResponse, responseText,
                   searchData, completion, caught, calls>>

SearchFailed == <<"Failed to search OpenSearch">>

\* searchResponse.text() of a non-ok Response settles
SemanticSearchText ==
    /\ route = "semantic" /\ pc = "searchText"
    /\ \/ \* reading the body rejects
          Throw(Err(<<"terminated">>))
       \/ \* errorText is logged only
          /\ Respond(Json([error |-> SearchFailed], 502))
          /\ UNCHANGED caught
    /\ UNCHANGED <<clientVars, uiVars>>
    /\ UNCHANGED <<env, route, body, message, session_id, queryVector,
                   searchResponse, hits, context, langflowPayload,
                   langflowResponse, responseText, searchData, completion, calls>>

NoDocuments == <<"No relevant documents found", " for your question.">>

\* searchData.hits?.hits || []
HitsOf(data) ==
    IF data.hits = Undefined THEN <<>>
    ELSE Or(data.hits.hits, Arr(<<>>)).a

\* the zero-hit test never taken
NoHitsNever(h) == Len(h) < 0

\* hits.length === 0
NoHits(h) == Len(h) = 0

\* the rank written from the 0-based index
SegmentZeroBased(hit, i) == <<"Document ", ToString(i), ":\n">> \o hit.text

\* (hit, i) => `Document ${i + 1}:\n${hit._source.text}`
Segment(hit, i) == <<"Document ", ToString(i + 1), ":\n">> \o hit.text

Separator == <<"\n\n---\n\n">>

\* hits.map(...).join('\n\n---\n\n')
Context(h) == Join([i \in 1..Len(h) |-> Segment(h[i], i - 1)], Separator)

\* the user turn of the chat completion
UserContent(ctx, msg) ==
    <<"CONTEXT:\n">> \o ctx \o <<"\n\nQUESTION: ">> \o msg
    \o <<"\n\nANSWER (use specific numbers from the context):">>

\* searchResponse.json() of an ok Response settles; zero hits end the
\* request, otherwise the context is built and the chat completion is called
SemanticSearchJson ==
    /\ route = "semantic" /\ pc = "searchJson"
    /\ \/ \* the body is not JSON
          /\ Throw(Err(<<"Unexpected token < in JSON at position 0">>))
          /\ UNCHANGED <<searchData, hits, context, calls>>
       \/ \E data \in SearchDataValues(OPENSEARCH_K) :
            /\ searchData' = data
            /\ IF data = Null THEN
                  /\ Throw(Err(<<"Cannot read properties of null (reading 'hits')">>))
                  /\ UNCHANGED <<hits, context, calls>>
               ELSE
                  /\ hits' = HitsOf(data)
                  /\ IF NoHits(HitsOf(data)) THEN
                        /\ Respond(Json([answer |-> NoDocuments,
                                         search_type |-> "semantic",
                                         docs_retrieved |-> 0], 200))
                        /\ UNCHANGED <<context, calls, caught>>
                     ELSE
                        /\ context' = Context(HitsOf(data))
                        /\ calls' = Append(calls,
                              [to |-> "generation",
                               model |-> OPENAI_LLM_MODEL,
                               user |-> UserContent(Context(HitsOf(data)), message.s)])
                        /\ pc' = "completion"
                        /\ UNCHANGED <<responses, caught>>
    /\ UNCHANGED <<clientVars, uiVars>>
    /\ UNCHANGED <<env, route, body, message, session_id, queryVector,
                   searchResponse, langflowPayload, langflowResponse,
                   responseText, completion>>

NoResponseGenerated == <<"No response generated.">>

\* the ellipsis appended to every text
DisplayTextAlwaysEllipsis(text) ==
    SubSeq(text, 1, IF Len(text) < DisplayLen THEN Len(text) ELSE DisplayLen)
    \o <<"...">>

\* text.substring(0, 500) + (text.length > 500 ? '...' : '')
DisplayText(text) ==
    SubSeq(text, 1, IF Len(text) < DisplayLen THEN Len(text) ELSE DisplayLen)
    \o (IF Len(text) > DisplayLen THEN <<"...">> ELSE <<>>)

\* (hit, i) => ({ rank, score, text, file_path })
RetrievedDoc(hit, i) ==
    [rank |-> i + 1,
     score |-> hit.score,
     text |-> DisplayText(hit.text),
     file_path |-> Or(hit.file_path, Str(<<"unknown">>)).s]

\* hits.map((hit, i) => ...)
RetrievedDocs(h) == [i \in 1..Len(h) |-> RetrievedDoc(h[i], i - 1)]

\* v.toFixed(4) of the integer components tried
ToFixed4(v) == <<ToString(v), ".0000">>

\* queryVector.slice(0, 5)
Slice5(vector) == SubSeq(vector, 1, IF Len(vector) < 5 THEN Len(vector) ELSE 5)

\* `[${queryVector.slice(0, 5).map(v => v.toFixed(4)).join(', ')}... (${queryVector.length} dimensions)]`
DisplayVector(vector) ==
    <<"[">>
    \o Join([i \in 1..Len(Slice5(vector)) |-> ToFixed4(Slice5(vector)[i])], <<", ">>)
    \o <<"... (", ToString(Len(vector)), " dimensions)]">>

\* the query shown to the user
DisplayQuery(vector) ==
    [size |-> OPENSEARCH_K,
     source |-> <<"text", "file_path">>,
     knn |-> [field |-> OPENSEARCH_VECTOR_FIELD, vector |-> DisplayVector(vector),
              k |-> OPENSEARCH_K]]

\* JSON.stringify(displayQuery, null, 2)
StringifyQuery(q) ==
    <<"{\n  \"size\": ", ToString(q.size), ",\n  \"_source\": [\n    \"",
      q.source[1], "\",\n    \"", q.source[2],
      "\"\n  ],\n  \"query\": {\n    \"knn\": {\n      \"">>
    \o q.knn.field \o <<"\": {\n        \"vector\": \"">> \o q.knn.vector
    \o <<"\",\n        \"k\": ", ToString(q.knn.k), "\n      }\n    }\n  }\n}">>

SearchInfo(vector) ==
    [type |-> <<"k-NN Vector Search">>,
     index |-> INDEX_NAME,
     embedding_model |-> OPENAI_EMBEDDING_MODEL,
     k |-> OPENSEARCH_K,
     query |-> StringifyQuery(DisplayQuery(vector))]

\* openai.chat.completions.create settles; the answer is returned
SemanticCompletion ==
    /\ route = "semantic" /\ pc = "completion"
    /\ \/ \* the provider call rejects: caught by the outer catch
          /\ completion' = [t |-> "rejected"]
          /\ Throw(Err(<<"429 Rate limit reached">>))
       \/ \E content \in ContentValues :
            /\ completion' = [t |-> "completion", content |-> content]
            /\ Respond(Json([answer |-> Or(content, Str(NoResponseGenerated)).s,
                             search_type |-> "semantic",
                             docs_retrieved |-> Len(hits),
                             retrieved_docs |-> RetrievedDocs(hits),
                             search_info |-> SearchInfo(queryVector)], 200))
            /\ UNCHANGED caught
    /\ UNCHANGED <<clientVars, uiVars>>
    /\ UNCHANGED <<env, route, body, message, session_id, queryVector,
                   searchResponse, hits, context, langflowPayload,
                   langflowResponse, responseText, searchData, calls>>

----------------------------------------------------------------------------
\* The hybrid route

LANGFLOW_URL == <<"http://localhost:7860">>

LANGFLOW_FLOW_ID == <<"6f48da32-743b-49a7-bebf-0e302d172314">>

LANGFLOW_API_KEY == env.LANGFLOW_API_KEY

LangflowRunUrl == LANGFLOW_URL \o <<"/api/v1/run/">> \o LANGFLOW_FLOW_ID

\* the headers of the Langflow request
LangflowHeaders ==
    IF LANGFLOW_API_KEY # <<>>
    THEN [ContentType |-> <<"application/json">>, xApiKey |-> LANGFLOW_API_KEY]
    ELSE [ContentType |-> <<"application/json">>]

\* what the hybrid handler does once it holds the parsed body: validation,
\* then the fetch of the Langflow run endpoint
HybridValidate(value) ==
    IF value = Null THEN
       /\ Throw(Err(<<"Cannot destructure property 'message' of 'body' as it is null.">>))
       /\ UNCHANGED <<message, session_id, langflowPayload, calls>>
    ELSE
       /\ message' = value.message
       /\ session_id' = value.session_id
       /\ IF ~Truthy(value.message) THEN
             /\ Respond(Json([error |-> MessageRequired], 400))
             /\ UNCHANGED <<langflowPayload, calls, caught>>
          ELSE
             \E uuid \in UuidValues :
               LET payload == [output_type |-> "chat",
                               input_type |-> "chat",
                               input_value |-> value.message.s,
                               session_id |-> Or(value.session_id, Str(uuid)).s]
               IN /\ langflowPayload' = payload
                  /\ calls' = Append(calls, [to |-> "orchestrator",
                                             url |-> LangflowRunUrl,
                                             method |-> "POST",
                                             headers |-> LangflowHeaders,
                                             body |-> payload])
                  /\ pc' = "langflow"
                  /\ UNCHANGED <<responses, caught>>

\* request.json() settles
HybridBody ==
    /\ route = "hybrid" /\ pc = "body"
    /\ \E b \in BodyValues :
        /\ body' = b
        /\ IF ~b.ok THEN
              /\ Throw(b.err)
              /\ UNCHANGED <<message, session_id, langflowPayload, calls>>
           ELSE HybridValidate(b.value)
    /\ UNCHANGED <<clientVars, uiVars>>
    /\ UNCHANGED <<env, route, queryVector, searchResponse, hits, context,
                   langflowResponse, responseText, searchData, completion>>

\* the Langflow fetch settles; the body of the Response is read as text
HybridFetch ==
    /\ route = "hybrid" /\ pc = "langflow"
    /\ \/ \* fetch rejects: caught by the outer catch
          /\ langflowResponse' = [t |-> "rejected"]
          /\ Throw(Err(<<"fetch failed">>))
       \/ \E status \in LangflowStatusValues :
            /\ langflowResponse' = [t |-> "response", status |-> status]
            /\ pc' = "langflowText"
            /\ UNCHANGED <<responses, caught>>
    /\ UNCHANGED <<clientVars, uiVars>>
    /\ UNCHANGED <<env, route, body, message, session_id, queryVector,
                   searchResponse, hits, context, langflowPayload, responseText,
                   searchData, completion, calls>>

Whitespace == {" ", "\n", "\t", "\r"}

RECURSIVE TrimStart(_)
TrimStart(text) ==
    IF Len(text) > 0 /\ text[1] \in Whitespace THEN TrimStart(Tail(text)) ELSE text

RECURSIVE TrimEnd(_)
TrimEnd(text) ==
    IF Len(text) > 0 /\ text[Len(text)] \in Whitespace
    THEN TrimEnd(SubSeq(text, 1, Len(text) - 1)) ELSE text

\* String.prototype.trim of a text given as characters
Trim(text) == TrimEnd(TrimStart(text))

UpperCase == <<"A", "B", "C", "D", "E", "F", "G", "H", "I", "J", "K", "L", "M",
               "N", "O", "P", "Q", "R", "S", "T", "U", "V", "W", "X", "Y", "Z">>

LowerCase == <<"a", "b", "c", "d", "e", "f", "g", "h", "i", "j", "k", "l", "m",
               "n", "o", "p", "q", "r", "s", "t", "u", "v", "w", "x", "y", "z">>

\* String.prototype.toLowerCase of a text given as characters
ToLowerCase(text) ==
    [i \in 1..Len(text) |->
        IF \E k \in 1..26 : UpperCase[k] = text[i]
        THEN LowerCase[CHOOSE k \in 1..26 : UpperCase[k] = text[i]]
        ELSE text[i]]

\* String.prototype.startsWith of texts given as characters
StartsWith(text, prefix) ==
    Len(text) >= Len(prefix) /\ SubSeq(text, 1, Len(prefix)) = prefix

\* the preamble test without toLowerCase()
IsHtmlCaseSensitive(raw) ==
    \/ StartsWith(Trim(raw), <<"<", "!", "d", "o", "c", "t", "y", "p", "e">>)
    \/ StartsWith(Trim(raw), <<"<", "h", "t", "m", "l">>)

\* any body that opens a tag counts as a page
IsHtmlAnyMarkup(raw) ==
    StartsWith(Trim(raw), <<"<">>)

\* trimmed.toLowerCase().startsWith('<!doctype') || ...startsWith('<html')
IsHtml(raw) ==
    \/ StartsWith(ToLowerCase(Trim(raw)), <<"<", "!", "d", "o", "c", "t", "y", "p", "e">>)
    \/ StartsWith(ToLowerCase(Trim(raw)), <<"<", "h", "t", "m", "l">>)

AuthHint ==
    IF LANGFLOW_API_KEY = <<>>
    THEN <<" Langflow 1.5+ requires an API key: add ", "LANGFLOW_API_KEY",
           " to frontend/.env.local (create one in Langflow: Settings -> API Keys).",
           " Or run Langflow with LANGFLOW_SKIP_AUTH_AUTO_LOGIN=true for local dev without auth.">>
    ELSE <<" Check that ", "LANGFLOW_API_KEY",
           " is valid and LANGFLOW_FLOW_ID matches your flow in the Langflow UI.">>

HtmlError ==
    <<"Langflow returned a page instead of JSON.">> \o AuthHint
    \o <<" Also ensure LANGFLOW_URL is the base URL (e.g. http://localhost:7860) and the flow is built and running.">>

\* the error fields read as message || detail || error
ErrorMsgMessageFirst(errorData) ==
    Or(Or(Or(errorData.message, errorData.detail), errorData.error),
       Str(<<"Unknown error">>)).s

\* errorData.detail || errorData.message || errorData.error || 'Unknown error'
ErrorMsg(errorData) ==
    Or(Or(Or(errorData.detail, errorData.message), errorData.error),
       Str(<<"Unknown error">>)).s

InvalidJson == <<"Invalid JSON response from Langflow">>

NoResponseReceived == <<"No response received from the RAG system.">>

\* an answer already found is kept
InnerStepKeepFirst(innerOutput, answer) ==
    IF answer # <<>> THEN answer
    ELSE IF Truthy(innerOutput.rmt) THEN innerOutput.rmt.s
    ELSE IF Truthy(innerOutput.rt) THEN innerOutput.rt.s
    ELSE IF Truthy(innerOutput.mt) THEN innerOutput.mt.s
    ELSE answer

\* the if / else if / else if over one innerOutput
InnerStep(innerOutput, answer) ==
    IF Truthy(innerOutput.rmt) THEN innerOutput.rmt.s
    ELSE IF Truthy(innerOutput.rt) THEN innerOutput.rt.s
    ELSE IF Truthy(innerOutput.mt) THEN innerOutput.mt.s
    ELSE answer

RECURSIVE InnerLoop(_, _)
\* for (const innerOutput of output.outputs)
InnerLoop(inners, answer) ==
    IF Len(inners) = 0 THEN answer
    ELSE InnerLoop(Tail(inners), InnerStep(inners[1], answer))

RECURSIVE OuterLoop(_, _)
\* for (const output of langflowData.outputs)
OuterLoop(outputs, answer) ==
    IF Len(outputs) = 0 THEN answer
    ELSE OuterLoop(Tail(outputs),
                   IF Truthy(outputs[1].outputs)
                   THEN InnerLoop(outputs[1].outputs.a, answer)
                   ELSE answer)

\* JSON.stringify(langflowData.result) of an object result
StringifyResult(result) ==
    <<"{">>
    \o (IF result.text # Undefined THEN <<"\"text\":\"">> \o result.text.s \o <<"\",">> ELSE <<>>)
    \o <<"\"data\":\"">> \o result.data \o <<"\"}">>

\* the answer extracted from langflowData, '' when no branch assigns it
Extract(langflowData) ==
    IF Truthy(langflowData.outputs) THEN OuterLoop(langflowData.outputs.a, <<>>)
    ELSE IF Truthy(langflowData.result) THEN
        IF langflowData.result.t = "string" THEN langflowData.result.s
        ELSE Or(langflowData.result.text, Str(StringifyResult(langflowData.result))).s
    ELSE IF Truthy(langflowData.text) THEN langflowData.text.s
    ELSE <<>>

\* the extracted text is returned as it is
AnswerOfNoFallback(langflowData) == Extract(langflowData)

\* if (!answer) answer = 'No response received from the RAG system.'
AnswerOf(langflowData) ==
    IF Extract(langflowData) = <<>> THEN NoResponseReceived ELSE Extract(langflowData)

HybridSearchInfo ==
    [type |-> <<"Hybrid Search (BM25 + Vector)">>,
     orchestrator |-> <<"Langflow">>,
     index |-> INDEX_NAME,
     note |-> <<"Retrieved documents handled by Langflow internally">>,
     query |-> <<"{ \"description\": \"Langflow Hybrid Search Pipeline\", \"model\": \"">>
               \o OPENAI_EMBEDDING_MODEL \o <<"\", \"input\": \"">> \o message.s \o <<"\" }">>]

\* langflowResponse.text() settles; everything up to the return
\* only the inbound identifier is echoed
ResponseSessionIdInboundOnly == Or(session_id, Str(<<>>)).s

\* session_id: session_id || langflowPayload.session_id
ResponseSessionId == Or(session_id, Str(langflowPayload.session_id)).s

HybridText ==
    /\ route = "hybrid" /\ pc = "langflowText"
    /\ \/ \* reading the body rejects
          /\ Throw(Err(<<"terminated">>))
          /\ UNCHANGED responseText
       \/ \E text \in LangflowBodyValues :
            /\ responseText' = text
            /\ IF IsHtml(text.raw) THEN
                  /\ Respond(Json([error |-> HtmlError], 502))
                  /\ UNCHANGED caught
               ELSE IF ~Ok(langflowResponse.status) THEN
                  \* JSON.parse or the property reads throw: inner catch
                  /\ IF text.json = NotJson \/ text.json = Null
                     THEN Respond(Json([error |-> <<"Langflow API error: ",
                                                    ToString(langflowResponse.status)>>],
                                       langflowResponse.status))
                     ELSE Respond(Json([error |-> <<"Langflow error: ">> \o ErrorMsg(text.json)],
                                       langflowResponse.status))
                  /\ UNCHANGED caught
               ELSE IF text.json = NotJson THEN
                  /\ Respond(Json([error |-> InvalidJson], 502))
                  /\ UNCHANGED caught
               ELSE IF text.json = Null THEN
                  Throw(Err(<<"Cannot read properties of null (reading 'outputs')">>))
               ELSE IF text.json.outputs.t = "object" THEN
                  Throw(Err(<<"langflowData.outputs is not iterable">>))
               ELSE
                  /\ Respond(Json([answer |-> AnswerOf(text.json),
                                   session_id |-> ResponseSessionId,
                                   search_type |-> "hybrid",
                                   search_info |-> HybridSearchInfo], 200))
                  /\ UNCHANGED caught
    /\ UNCHANGED <<clientVars, uiVars>>
    /\ UNCHANGED <<env, route, body, message, session_id, queryVector,
                   searchResponse, hits, context, langflowPayload,
                   langflowResponse, searchData, completion, calls>>

Next ==
    \/ Request
    \/ SemanticBody
    \/ SemanticEmbedding
    \/ SemanticSearch
    \/ SemanticSearchText
    \/ SemanticSearchJson
    \/ SemanticCompletion
    \/ HybridBody
    \/ HybridFetch
    \/ HybridText

----------------------------------------------------------------------------
\* The OpenSearch client: lib/opensearch.ts, the index-creation script, and
\* the module text that follows the script in create-opensearch-index.js

\* a ?? b
Nullish(a, b) == IF a.t \in {"undefined", "null"} THEN b ELSE a

FalseText == <<"f", "a", "l", "s", "e">>

TrueText == <<"t", "r", "u", "e">>

\* values of OPENSEARCH_SSL_VERIFY
SslVerifyValues ==
    { Undefined, Str(<<"F", "a", "l", "s", "e">>), Str(<<"0">>), Str(TrueText) }

\* values of OPENSEARCH_SSL_REJECT_UNAUTHORIZED
RejectUnauthorizedValues ==
    { Undefined, Str(FalseText), Str(<<"N", "o">>), Str(TrueText) }

\* values of NODE_ENV
NodeEnvValues == { Undefined, Str(<<"production">>), Str(<<"development">>) }

\* values of OPENSEARCH_URL, as characters
ClientUrlValues ==
    { Undefined,
      Str(<<"h", "t", "t", "p", "s", ":", "/", "/", "o", "s">>),
      Str(<<" ", "H", "T", "T", "P", "S", ":", "/", "/", "o", "s", "/">>),
      Str(<<"h", "t", "t", "p", ":", "/", "/", "o", "s">>) }

\* values of OPENSEARCH_USERNAME and OPENSEARCH_PASSWORD
CredentialValues ==
    { [username |-> Undefined, password |-> Undefined],
      [username |-> Str(<<"admin">>), password |-> Undefined],
      [username |-> Str(<<"admin">>), password |-> Str(<<"s3cret">>)] }

ProcessEnvValues ==
    { [OPENSEARCH_URL |-> url,
       OPENSEARCH_USERNAME |-> c.username,
       OPENSEARCH_PASSWORD |-> c.password,
       OPENSEARCH_SSL_VERIFY |-> v,
       OPENSEARCH_SSL_REJECT_UNAUTHORIZED |-> r,
       NODE_ENV |-> n] :
         url \in ClientUrlValues, c \in CredentialValues, v \in SslVerifyValues,
         r \in RejectUnauthorizedValues, n \in NodeEnvValues }

\* raw === 'false' || raw === '0' || raw === 'no'
IsFalseWord(raw) == raw \in { FalseText, <<"0">>, <<"n", "o">> }

\* lib/opensearch.ts: only OPENSEARCH_SSL_REJECT_UNAUTHORIZED is read
getRejectUnauthorized ==
    LET raw == ToLowerCase(Nullish(processEnv.OPENSEARCH_SSL_REJECT_UNAUTHORIZED,
                                   Str(TrueText)).s)
    IN  raw # FalseText /\ raw # <<"0">> /\ raw # <<"n", "o">>

\* the script: the two flags, then the default by NODE_ENV and scheme
getRejectUnauthorizedScript ==
    LET sslVerify == ToLowerCase(Or(processEnv.OPENSEARCH_SSL_VERIFY, Str(<<>>)).s)
        raw == ToLowerCase(Or(processEnv.OPENSEARCH_SSL_REJECT_UNAUTHORIZED, Str(<<>>)).s)
        url == ToLowerCase(Trim(Or(processEnv.OPENSEARCH_URL, Str(<<>>)).s))
    IN  IF IsFalseWord(sslVerify) THEN FALSE
        ELSE IF IsFalseWord(raw) THEN FALSE
        ELSE IF /\ processEnv.NODE_ENV # Str(<<"production">>)
                /\ StartsWith(url, <<"h", "t", "t", "p", "s", ":", "/", "/">>)
             THEN FALSE
        ELSE TRUE

\* the module text after the script: the same resolution written with ??
getRejectUnauthorizedCopy ==
    LET sslVerify == ToLowerCase(Nullish(processEnv.OPENSEARCH_SSL_VERIFY, Str(<<>>)).s)
        raw == ToLowerCase(Nullish(processEnv.OPENSEARCH_SSL_REJECT_UNAUTHORIZED,
                                   Str(<<>>)).s)
        url == ToLowerCase(Trim(Nullish(processEnv.OPENSEARCH_URL, Str(<<>>)).s))
    IN  IF IsFalseWord(sslVerify) THEN FALSE
        ELSE IF IsFalseWord(raw) THEN FALSE
        ELSE IF /\ processEnv.NODE_ENV # Str(<<"production">>)
                /\ StartsWith(url, <<"h", "t", "t", "p", "s", ":", "/", "/">>)
             THEN FALSE
        ELSE TRUE

\* the auth option: present only for a truthy username
AuthOption ==
    IF Truthy(processEnv.OPENSEARCH_USERNAME)
    THEN [username |-> processEnv.OPENSEARCH_USERNAME.s,
          password |-> Or(processEnv.OPENSEARCH_PASSWORD, Str(<<>>)).s]
    ELSE Undefined

\* new Client({ node, auth, ssl }) as lib/opensearch.ts builds it
NewClient ==
    [node |-> normalizeOpenSearchUrl(Or(processEnv.OPENSEARCH_URL, Str(<<>>)).s),
     auth |-> AuthOption,
     ssl  |-> [rejectUnauthorized |-> getRejectUnauthorized]]

\* url.trim().replace(/\/+$/, '')
normalizeOpenSearchUrlCopy(url) == normalizeOpenSearchUrl(Trim(url))

\* new Client({ node, auth, ssl }) as the module text after the script builds it
NewClientCopy ==
    [node |-> normalizeOpenSearchUrlCopy(Or(processEnv.OPENSEARCH_URL, Str(<<>>)).s),
     auth |-> AuthOption,
     ssl  |-> [rejectUnauthorized |-> getRejectUnauthorizedCopy]]

\* const node = (process.env.OPENSEARCH_URL || '').trim().replace(/\/+$/, '')
ScriptNode == normalizeOpenSearchUrl(Trim(Or(processEnv.OPENSEARCH_URL, Str(<<>>)).s))

\* new Client({ node, requestTimeout, auth, ssl }) of the script
NewScriptClient ==
    [node |-> ScriptNode,
     requestTimeout |-> 30000,
     auth |-> AuthOption,
     ssl  |-> [rejectUnauthorized |-> getRejectUnauthorizedScript]]

UrlNotSet == <<"OPENSEARCH_URL is not set">>

\* getOpenSearchClient() without the if (!client) test
getOpenSearchClientNoCache ==
    /\ IF NewClient.node = <<>> THEN
          /\ returned' = [t |-> "throw", of |-> "lib", error |-> Err(UrlNotSet)]
          /\ UNCHANGED <<client, constructed>>
       ELSE
          /\ client' = NewClient
          /\ constructed' = [constructed EXCEPT !.lib = @ + 1]
          /\ returned' = [t |-> "client", of |-> "lib", created |-> TRUE, value |-> NewClient]
    /\ UNCHANGED <<processEnv, clientCopy, script>>
    /\ UNCHANGED <<routeVars, uiVars>>

\* getOpenSearchClient() of lib/opensearch.ts
getOpenSearchClient ==
    /\ IF client # Null THEN
          /\ returned' = [t |-> "client", of |-> "lib", created |-> FALSE, value |-> client]
          /\ UNCHANGED <<client, constructed>>
       ELSE IF NewClient.node = <<>> THEN
          /\ returned' = [t |-> "throw", of |-> "lib", error |-> Err(UrlNotSet)]
          /\ UNCHANGED <<client, constructed>>
       ELSE
          /\ client' = NewClient
          /\ constructed' = [constructed EXCEPT !.lib = @ + 1]
          /\ returned' = [t |-> "client", of |-> "lib", created |-> TRUE, value |-> NewClient]
    /\ UNCHANGED <<processEnv, clientCopy, script>>
    /\ UNCHANGED <<routeVars, uiVars>>

\* getOpenSearchClient() of the module text after the script
getOpenSearchClientCopy ==
    /\ IF clientCopy # Null THEN
          /\ returned' = [t |-> "client", of |-> "copy", created |-> FALSE,
                          value |-> clientCopy]
          /\ UNCHANGED <<clientCopy, constructed>>
       ELSE IF NewClientCopy.node = <<>> THEN
          /\ returned' = [t |-> "throw", of |-> "copy", error |-> Err(UrlNotSet)]
          /\ UNCHANGED <<clientCopy, constructed>>
       ELSE
          /\ clientCopy' = NewClientCopy
          /\ constructed' = [constructed EXCEPT !.copy = @ + 1]
          /\ returned' = [t |-> "client", of |-> "copy", created |-> TRUE,
                          value |-> NewClientCopy]
    /\ UNCHANGED <<processEnv, client, script>>
    /\ UNCHANGED <<routeVars, uiVars>>

\* the script, from the loaded .env.local to its client: exit 1 without a URL
ScriptConnect ==
    /\ script.pc = "load"
    /\ IF ScriptNode = <<>>
       THEN script' = [pc |-> "exit", code |-> 1, client |-> Null]
       ELSE script' = [pc |-> "main", client |-> NewScriptClient]
    /\ UNCHANGED <<processEnv, client, clientCopy, returned, constructed>>
    /\ UNCHANGED <<routeVars, uiVars>>

\* a JS number
Num(n) == [t |-> "number", n |-> n]

\* const maxTries = 3
maxTries == 3

\* what client.indices.create rejects with: err.meta?.statusCode,
\* err.body?.error?.type and err.body?.error?.reason
CreateErrorValues ==
    { [status |-> Num(503), type |-> Undefined, reason |-> Undefined],
      [status |-> Num(500), type |-> Str(<<"cluster_manager_not_discovered_exception">>),
       reason |-> Undefined],
      [status |-> Num(400), type |-> Str(<<"resource_already_exists_exception">>),
       reason |-> Str(<<"index [rag_demo/abc] ", "already exists">>)],
      [status |-> Num(400), type |-> Str(<<"invalid_index_name_exception">>),
       reason |-> Str(<<"index [rag_demo] ", "already exists", " as alias">>)],
      [status |-> Num(503), type |-> Str(<<"resource_already_exists_exception">>),
       reason |-> Undefined],
      [status |-> Num(401), type |-> Str(<<"security_exception">>), reason |-> Undefined],
      [status |-> Undefined, type |-> Undefined, reason |-> Undefined] }

\* how one client.indices.create call settles
CreateOutcomeValues ==
    { [t |-> "created"] } \cup { [t |-> "error", err |-> e] : e \in CreateErrorValues }

\* every failure counts as a 503
Is503Always(err) == TRUE

\* status === 503 || errorType === 'cluster_manager_not_discovered_exception'
Is503(err) ==
    \/ err.status = Num(503)
    \/ err.type = Str(<<"cluster_manager_not_discovered_exception">>)

\* errorType === 'resource_already_exists_exception' ||
\* (status === 400 && (reason || '').includes('already exists'))
IsAlreadyExists(err) ==
    \/ err.type = Str(<<"resource_already_exists_exception">>)
    \/ /\ err.status = Num(400)
       /\ Includes(Or(err.reason, Str(<<>>)).s, "already exists")

\* main() is called: the first pass of the loop sends the create request
ScriptMain ==
    /\ script.pc = "main"
    /\ script' = [pc |-> "create", client |-> script.client, tryNum |-> 1,
                  outcomes |-> <<>>]
    /\ UNCHANGED <<processEnv, client, clientCopy, returned, constructed>>
    /\ UNCHANGED <<routeVars, uiVars>>

\* await client.indices.create(...) settles: return, continue or exit(1)
ScriptCreate ==
    /\ script.pc = "create"
    /\ \E o \in CreateOutcomeValues :
          script' =
             IF o.t = "created" \/ IsAlreadyExists(o.err) THEN
                [pc |-> "exit", code |-> 0, client |-> script.client,
                 tryNum |-> script.tryNum, outcomes |-> Append(script.outcomes, o)]
             ELSE IF Is503(o.err) /\ script.tryNum < maxTries THEN
                [pc |-> "sleep", client |-> script.client,
                 tryNum |-> script.tryNum + 1, outcomes |-> Append(script.outcomes, o)]
             ELSE
                [pc |-> "exit", code |-> 1, client |-> script.client,
                 tryNum |-> script.tryNum, outcomes |-> Append(script.outcomes, o)]
    /\ UNCHANGED <<processEnv, client, clientCopy, returned, constructed>>
    /\ UNCHANGED <<routeVars, uiVars>>

\* await sleep(10000) is over: the next create request is sent
ScriptSleep ==
    /\ script.pc = "sleep"
    /\ script' = [script EXCEPT !.pc = "create"]
    /\ UNCHANGED <<processEnv, client, clientCopy, returned, constructed>>
    /\ UNCHANGED <<routeVars, uiVars>>

NextScript ==
    \/ ScriptConnect
    \/ ScriptMain
    \/ ScriptCreate
    \/ ScriptSleep

InitClient ==
    /\ env = CHOOSE e \in EnvValues : TRUE
    /\ RoutesIdle
    /\ processEnv \in ProcessEnvValues
    /\ ClientIdle
    /\ UiIdle

NextClient ==
    \/ getOpenSearchClient
    \/ getOpenSearchClientCopy
    \/ ScriptConnect

\* the environments of a running app process whose variables get reassigned
RuntimeEnvValues ==
    { e \in ProcessEnvValues :
        /\ e.NODE_ENV = Undefined
        /\ e.OPENSEARCH_PASSWORD = e.OPENSEARCH_USERNAME
           \/ e.OPENSEARCH_PASSWORD # Undefined
        /\ e.OPENSEARCH_SSL_VERIFY \in {Undefined, Str(<<"0">>)}
        /\ e.OPENSEARCH_SSL_REJECT_UNAUTHORIZED \in {Undefined, Str(FalseText)} }

\* some code of the process assigns process.env between two calls
SetEnv ==
    /\ \E e \in RuntimeEnvValues : e # processEnv /\ processEnv' = e
    /\ UNCHANGED <<client, clientCopy, script, returned, constructed>>
    /\ UNCHANGED <<routeVars, uiVars>>

InitProcess ==
    /\ env = CHOOSE e \in EnvValues : TRUE
    /\ RoutesIdle
    /\ processEnv \in RuntimeEnvValues
    /\ ClientIdle
    /\ UiIdle

NextProcess ==
    \/ SetEnv
    \/ getOpenSearchClient
    \/ getOpenSearchClientCopy

----------------------------------------------------------------------------
\* The chat page: app/page.tsx

\* what the user can have in the textarea, as characters
InputValues ==
    { <<>>, <<" ">>, <<"h", "i">>, <<" ", "h", "i", "\n">> }

\* const [sessionId] = useState(() => crypto.randomUUID())
sessionId == <<"7d3c-page-uuid">>

\* the bodies the page can read with response.json()
UiJsonValues ==
    { NotJson,
      [t |-> "object", answer |-> Str(<<"The APR is 19.9%.">>), error |-> Undefined,
       search_type |-> Str(<<"semantic">>)],
      [t |-> "object", answer |-> Str(<<"No response received from the RAG system.">>),
       error |-> Undefined, search_type |-> Undefined],
      [t |-> "object", answer |-> Undefined, error |-> Str(<<"Message is required">>),
       search_type |-> Undefined],
      [t |-> "object", answer |-> Undefined, error |-> Undefined,
       search_type |-> Undefined] }

\* how the page's fetch settles: a rejection, or a Response with its body
UiResponseValues ==
    { [t |-> "rejected", error |-> Err(<<"Failed to fetch">>)] }
    \cup { [t |-> "response", ok |-> (j # NotJson /\ j.answer # Undefined), json |-> j] :
              j \in UiJsonValues }
    \cup { [t |-> "response", ok |-> TRUE, json |-> NotJson] }

\* setInput(e.target.value) and setInput(suggestion)
SetInput ==
    /\ \E text \in InputValues : text # input /\ input' = text
    /\ UNCHANGED <<messages, isLoading, searchMode, uiPc, uiResponse, requests>>
    /\ UNCHANGED <<routeVars, clientVars>>

\* the two mode buttons
SetSearchMode ==
    /\ \E mode \in {"semantic", "hybrid"} : mode # searchMode /\ searchMode' = mode
    /\ UNCHANGED <<messages, input, isLoading, uiPc, uiResponse, requests>>
    /\ UNCHANGED <<routeVars, clientVars>>

\* the message of the user as handleSubmit builds it
UserMessage == [role |-> "user", content |-> Str(Trim(input))]

\* the page sends no more than MaxTurns requests
TurnsLeft == Len(requests) < MaxTurns

\* handleSubmit without the isLoading test
handleSubmitWhileLoading ==
    IF Trim(input) = <<>> THEN
       UNCHANGED uiVars
    ELSE
       /\ messages' = Append(messages, UserMessage)
       /\ input' = <<>>
       /\ isLoading' = TRUE
       /\ requests' = Append(requests,
             [endpoint |-> IF searchMode = "semantic" THEN "/api/semantic" ELSE "/api/chat",
              method |-> "POST",
              body |-> [message |-> Trim(input), session_id |-> sessionId]])
       /\ uiPc' = "fetch"
       /\ uiResponse' = Undefined
       /\ UNCHANGED searchMode

\* handleSubmit up to its first await
handleSubmit ==
    IF Trim(input) = <<>> \/ isLoading THEN
       UNCHANGED uiVars
    ELSE
       /\ messages' = Append(messages, UserMessage)
       /\ input' = <<>>
       /\ isLoading' = TRUE
       /\ requests' = Append(requests,
             [endpoint |-> IF searchMode = "semantic" THEN "/api/semantic" ELSE "/api/chat",
              method |-> "POST",
              body |-> [message |-> Trim(input), session_id |-> sessionId]])
       /\ uiPc' = "fetch"
       /\ uiResponse' = Undefined
       /\ UNCHANGED searchMode

\* the form's onSubmit
FormSubmit ==
    /\ TurnsLeft
    /\ handleSubmit
    /\ UNCHANGED <<routeVars, clientVars>>

\* the textarea's onKeyDown
handleKeyDown ==
    /\ TurnsLeft
    /\ \E key \in {"Enter", "a"}, shiftKey \in BOOLEAN :
          IF key = "Enter" /\ ~shiftKey THEN handleSubmit ELSE UNCHANGED uiVars
    /\ UNCHANGED <<routeVars, clientVars>>

\* the catch block without the finally block
UiCatchKeepsLoading(error) ==
    /\ messages' = Append(messages,
          [role |-> "assistant",
           content |-> Str(<<"Sorry, I encountered an error: ">> \o error.message)])
    /\ isLoading' = isLoading
    /\ uiPc' = "idle"

\* catch (error) { ... } finally { setIsLoading(false) }
UiCatch(error) ==
    /\ messages' = Append(messages,
          [role |-> "assistant",
           content |-> Str(<<"Sorry, I encountered an error: ">> \o error.message)])
    /\ isLoading' = FALSE
    /\ uiPc' = "idle"

\* the assistant message built from a success body
AssistantMessage(data) ==
    [role |-> "assistant",
     content |-> data.answer,
     searchType |-> Or(data.search_type, Str(<<searchMode>>)).s]

\* await fetch(endpoint, ...) settles
UiFetch ==
    /\ uiPc = "fetch"
    /\ \E r \in UiResponseValues :
          /\ uiResponse' = r
          /\ IF r.t = "rejected" THEN UiCatch(r.error)
             ELSE /\ uiPc' = "json"
                  /\ UNCHANGED <<messages, isLoading>>
    /\ UNCHANGED <<input, searchMode, requests>>
    /\ UNCHANGED <<routeVars, clientVars>>

\* await response.json() settles; the answer or the error is shown
UiJson ==
    /\ uiPc = "json"
    /\ IF uiResponse.json = NotJson THEN
          UiCatch(Err(<<"Unexpected token < in JSON at position 0">>))
       ELSE IF ~uiResponse.ok THEN
          UiCatch(Err(Or(uiResponse.json.error, Str(<<"Failed to get response">>)).s))
       ELSE
          /\ messages' = Append(messages, AssistantMessage(uiResponse.json))
          /\ isLoading' = FALSE
          /\ uiPc' = "idle"
    /\ UNCHANGED <<input, searchMode, uiResponse, requests>>
    /\ UNCHANGED <<routeVars, clientVars>>

InitUi ==
    /\ env = CHOOSE e \in EnvValues : TRUE
    /\ RoutesIdle
    /\ processEnv = UnsetProcessEnv
    /\ ClientIdle
    /\ UiIdle

NextUi ==
    \/ SetInput
    \/ SetSearchMode
    \/ FormSubmit
    \/ handleKeyDown
    \/ UiFetch
    \/ UiJson

----------------------------------------------------------------------------
\* Properties of the two routes

\* the response returned for the current request
Resp == responses[Len(responses)]

Answered == pc = "done" /\ Len(responses) = 1

Called(to) == \E i \in 1..Len(calls) : calls[i].to = to

HasField(r, f) == f \in DOMAIN r

\* the index answered 2xx with a JSON object that holds no hit
ZeroHitsReturned ==
    /\ route = "semantic"
    /\ searchData \notin {Undefined, Null}
    /\ ~ ( /\ searchData.hits # Undefined
           /\ searchData.hits.hits # Undefined
           /\ searchData.hits.hits.a # <<>> )

\* C1: in the semantic route, once the search has succeeded with zero hits
\* the request has ended with a 200 response whose docs_retrieved is 0 and
\* whose answer contains "No relevant documents found", and no chat
\* completion was called for the request.
C1_ZeroHitsShortCircuit ==
    ZeroHitsReturned =>
        /\ Answered
        /\ Resp.status = 200
        /\ Resp.body.docs_retrieved = 0
        /\ Includes(Resp.body.answer, "No relevant documents found")
        /\ ~Called("generation")

C1_Witness ==
    /\ ZeroHitsReturned
    /\ searchData.hits # Undefined /\ searchData.hits.hits = Arr(<<>>)
    /\ Answered
    /\ Called("search")

\* what each of the three shapes yields for a parsed body, '' when nothing
Shape1Text(d) == IF d.outputs # Undefined THEN OuterLoop(d.outputs.a, <<>>) ELSE <<>>

Shape2Text(d) ==
    IF d.result = Undefined THEN <<>>
    ELSE IF d.result.t = "string" THEN d.result.s
    ELSE IF d.result.text # Undefined /\ d.result.text.s # <<>> THEN d.result.text.s
    ELSE StringifyResult(d.result)

Shape3Text(d) == IF d.text = Undefined THEN <<>> ELSE d.text.s

FirstNonEmpty(texts) ==
    IF \E i \in 1..Len(texts) : texts[i] # <<>>
    THEN texts[CHOOSE i \in 1..Len(texts) :
                 texts[i] # <<>> /\ \A j \in 1..(i - 1) : texts[j] = <<>>]
    ELSE <<>>

\* the hybrid request was answered 200 from a parsed Langflow body
HybridAnswered ==
    /\ route = "hybrid" /\ Answered /\ Resp.status = 200
    /\ responseText # Undefined

\* C2: in the hybrid route the answer is the text of the first of the three
\* shapes (nested outputs, result, text) that yields non-empty text, and the
\* fallback literal only when none of them yields text.
C2_FirstShapeWithText ==
    HybridAnswered =>
        LET d == responseText.json
            first == FirstNonEmpty(<<Shape1Text(d), Shape2Text(d), Shape3Text(d)>>)
        IN Resp.body.answer = IF first = <<>> THEN NoResponseReceived ELSE first

\* retrieval succeeded with at least one document and the request has ended
RetrievedAndEnded == route = "semantic" /\ Len(hits) > 0 /\ pc = "done"

\* C3: in the semantic route, once retrieval succeeded with at least one
\* document the request ends with a 200 Answer carrying all five fields,
\* whatever the chat completion does; when it rejected or returned empty
\* content the answer is "No response generated.".
C3_AnswerDespiteGenerationFailure ==
    RetrievedAndEnded =>
        /\ Len(responses) = 1
        /\ Resp.status = 200
        /\ \A f \in {"answer", "search_type", "docs_retrieved", "retrieved_docs", "search_info"} :
              HasField(Resp.body, f)
        /\ (completion.t = "rejected" \/ ~Truthy(completion.content))
              => Resp.body.answer = NoResponseGenerated

\* C4: in both routes, when an internal step failed with an exception the
\* error response does not carry the message text of that exception.
C4_NoRawExceptionText ==
    (caught # Undefined /\ Answered) =>
        \A i \in 1..Len(caught.message) : ~Includes(Resp.body.error, caught.message[i])

\* the characters of raw, after leading whitespace, spell prefix in any case
SpellsIgnoringCase(raw, prefix) ==
    \E k \in 0..Len(raw) :
        /\ \A i \in 1..k : raw[i] \in Whitespace
        /\ Len(raw) >= k + Len(prefix)
        /\ \A i \in 1..Len(prefix) :
              \/ raw[k + i] = prefix[i]
              \/ \E n \in 1..26 : LowerCase[n] = prefix[i] /\ UpperCase[n] = raw[k + i]

\* the body read from Langflow starts with an HTML preamble
HtmlPreambleRead ==
    /\ route = "hybrid" /\ responseText # Undefined
    /\ \/ SpellsIgnoringCase(responseText.raw, <<"<", "!", "d", "o", "c", "t", "y", "p", "e">>)
       \/ SpellsIgnoringCase(responseText.raw, <<"<", "h", "t", "m", "l">>)

\* C5: in the hybrid route, once a body starting with an HTML preamble was
\* read the request has ended with a 502 whose error gives API-key guidance,
\* for every upstream status and without a parse failure being reported.
C5_HtmlIs502WithAuthHint ==
    HtmlPreambleRead =>
        /\ Answered
        /\ Resp.status = 502
        /\ Includes(Resp.body.error, "LANGFLOW_API_KEY")
        /\ ~Includes(Resp.body.error, InvalidJson[1])
        /\ caught = Undefined

C5_Witness ==
    /\ HtmlPreambleRead
    /\ langflowResponse.status = 401
    /\ responseText.raw[1] \in Whitespace
    /\ Answered

\* the first of detail, message, error that is a non-empty string
FirstErrorField(d) ==
    IF d.detail # Undefined /\ d.detail.s # <<>> THEN d.detail.s
    ELSE IF d.message # Undefined /\ d.message.s # <<>> THEN d.message.s
    ELSE IF d.error # Undefined /\ d.error.s # <<>> THEN d.error.s
    ELSE <<"Unknown error">>

\* Langflow answered a non-success status with a JSON object that is no page
UpstreamRejected ==
    /\ route = "hybrid" /\ responseText # Undefined
    /\ ~HtmlPreambleRead
    /\ (langflowResponse.status < 200 \/ langflowResponse.status > 299)
    /\ responseText.json \notin {NotJson, Null}

\* C6: in the hybrid route, a non-success upstream status S with a JSON
\* object body gives a response of status S whose error is "Langflow error: "
\* followed by the first non-empty of detail, message, error, or by
\* "Unknown error".
C6_UpstreamErrorPassedThrough ==
    UpstreamRejected =>
        /\ Answered
        /\ Resp.status = langflowResponse.status
        /\ Resp.body.error = <<"Langflow error: ">> \o FirstErrorField(responseText.json)

C6_Witness ==
    /\ UpstreamRejected
    /\ langflowResponse.status = 401
    /\ responseText.json.detail = Str(<<"invalid key">>)
    /\ responseText.json.message = Str(<<"flow not found">>)
    /\ Answered

\* the request body parsed to a JSON object without a usable message
MessageMissing ==
    /\ body # Undefined /\ body.ok /\ body.value # Null
    /\ body.value.message \in {Undefined, Str(<<>>)}

RECURSIVE ExpectedContext(_, _)
\* the segments "Document i:\n<text of hit i>" for i = 1..n, separated by
\* "\n\n---\n\n"
ExpectedContext(h, n) ==
    IF n = 0 THEN <<>>
    ELSE (IF n = 1 THEN <<>> ELSE ExpectedContext(h, n - 1) \o <<"\n\n---\n\n">>)
         \o <<"Document ", ToString(n), ":\n">> \o h[n].text

\* C8: the context passed to the chat completion is the n segments
\* "Document i:\n<text of hit i>", i = 1..n in hit order, joined by the
\* separator, with no leading or trailing separator.
C8_ContextAssembly ==
    \A i \in 1..Len(calls) :
        calls[i].to = "generation" =>
            /\ Len(hits) > 0
            /\ context = ExpectedContext(hits, Len(hits))
            /\ calls[i].user = <<"CONTEXT:\n">> \o ExpectedContext(hits, Len(hits))
                                \o <<"\n\nQUESTION: ">> \o message.s
                                \o <<"\n\nANSWER (use specific numbers from the context):">>

C8_Witness ==
    /\ Called("generation")
    /\ Len(hits) = 2
    /\ hits[1].text # hits[2].text

\* a message was sent to the semantic route whose API key or search URL is
\* not configured
ConfigMissing ==
    /\ route = "semantic"
    /\ body # Undefined /\ body.ok /\ body.value # Null
    /\ body.value.message \notin {Undefined, Str(<<>>)}
    /\ (env.OPENAI_API_KEY = <<>> \/ \A i \in 1..Len(env.OPENSEARCH_URL) : env.OPENSEARCH_URL[i] = "/")

\* C9: in the semantic route a request with a message gets a 500 naming the
\* missing setting when the API key or the search URL is not configured, and
\* no embedding, search or generation call is made.
C9_ConfigurationFailsFast ==
    ConfigMissing =>
        /\ Answered
        /\ Resp.status = 500
        /\ IF env.OPENAI_API_KEY = <<>>
           THEN Includes(Resp.body.error, "OPENAI_API_KEY")
           ELSE Includes(Resp.body.error, "OPENSEARCH_URL")
        /\ calls = <<>>

C9_Witness ==
    /\ ConfigMissing
    /\ env.OPENAI_API_KEY # <<>>
    /\ env.OPENSEARCH_URL = <<"/">>
    /\ Answered

\* the index answered the search with a non-success status, its error text
\* was read and the request has ended
SearchRejected ==
    /\ route = "semantic" /\ pc = "done" /\ caught = Undefined
    /\ searchResponse # Undefined /\ searchResponse.t = "response"
    /\ (searchResponse.status < 200 \/ searchResponse.status > 299)

\* C10: in the semantic route a non-success status from the index gives a
\* 502 whose error includes the status the index returned.
C10_SearchFailedWithStatus ==
    SearchRejected =>
        /\ Resp.status = 502
        /\ Includes(Resp.body.error, ToString(searchResponse.status))

\* text holds sub as a run of consecutive pieces
ContainsText(text, sub) ==
    \E k \in 0..(Len(text) - Len(sub)) : SubSeq(text, k + 1, k + Len(sub)) = sub

\* the calls made to one collaborator
CallsTo(to) == {i \in 1..Len(calls) : calls[i].to = to}

\* the search fetch of the semantic route rejected
SearchFetchFailed ==
    /\ route = "semantic"
    /\ searchResponse # Undefined /\ searchResponse.t = "rejected"

\* C11: in the semantic route, when the search fetch throws the response is
\* a 502 whose error contains the configured endpoint URL and none of the
\* username, the password or the encoded Authorization value; no generation
\* call and no second search call is made.
C11_UnreachableNamesEndpoint ==
    SearchFetchFailed =>
        /\ Answered
        /\ Resp.status = 502
        /\ ContainsText(Resp.body.error, normalizeOpenSearchUrl(env.OPENSEARCH_URL))
        /\ env.OPENSEARCH_USERNAME # Undefined =>
              ~Includes(Resp.body.error, env.OPENSEARCH_USERNAME.s[1])
        /\ env.OPENSEARCH_PASSWORD # Undefined =>
              ~Includes(Resp.body.error, env.OPENSEARCH_PASSWORD.s[1])
        /\ \A i \in CallsTo("search") :
              \A h \in DOMAIN calls[i].headers :
                 h = "Authorization" =>
                    \A n \in 1..Len(calls[i].headers[h]) :
                       ~Includes(Resp.body.error, calls[i].headers[h][n])
        /\ Cardinality(CallsTo("search")) = 1
        /\ CallsTo("generation") = {}

C11_Witness ==
    /\ SearchFetchFailed
    /\ env.OPENSEARCH_USERNAME # Undefined /\ env.OPENSEARCH_PASSWORD # Undefined
    /\ env.OPENSEARCH_URL = <<"https://os.example:9200", "/", "/">>
    /\ Answered

\* the fetch to the orchestrator of the hybrid route rejected
LangflowFetchFailed ==
    /\ route = "hybrid"
    /\ langflowResponse # Undefined /\ langflowResponse.t = "rejected"

\* C12: in the hybrid route, when the fetch to the orchestrator throws the
\* response is a 502 whose error names the orchestrator endpoint.
C12_OrchestratorUnreachableIs502 ==
    LangflowFetchFailed =>
        /\ Answered
        /\ Resp.status = 502
        /\ ContainsText(Resp.body.error, LANGFLOW_URL)

\* the orchestrator's body was read and is neither a page nor JSON
UnparseableBodyRead ==
    /\ route = "hybrid" /\ responseText # Undefined
    /\ ~HtmlPreambleRead
    /\ responseText.json = NotJson

\* C13 (as stated): in the hybrid route a body that is neither an HTML page
\* nor parseable JSON gives a 502 "Invalid JSON response from Langflow",
\* whatever status the orchestrator returned.
C13_InvalidJsonWhateverStatus ==
    UnparseableBodyRead =>
        /\ Answered
        /\ Resp.status = 502
        /\ Resp.body.error = InvalidJson

\* C13 (amended): such a body gives the 502 "Invalid JSON response from
\* Langflow" when the orchestrator's status is a success status; with any
\* other status S the response has status S and the error
\* "Langflow API error: S".
C13_InvalidJsonOnSuccessStatus ==
    UnparseableBodyRead =>
        /\ Answered
        /\ Ok(langflowResponse.status) =>
              /\ Resp.status = 502
              /\ Resp.body.error = InvalidJson
        /\ ~Ok(langflowResponse.status) =>
              /\ Resp.status = langflowResponse.status
              /\ Resp.body.error =
                    <<"Langflow API error: ", ToString(langflowResponse.status)>>

C13_Witness ==
    /\ UnparseableBodyRead /\ Answered
    /\ langflowResponse.status = 200
    /\ responseText.raw = <<"<", "h", "1", ">", "4", "0", "4">>
    /\ Resp.status = 502

\* C14: every 200 response of the semantic route carries answer,
\* search_type = "semantic", docs_retrieved, retrieved_docs and search_info,
\* the zero-documents response included.
C14_FiveFieldsOnSuccess ==
    (route = "semantic" /\ Answered /\ Resp.status = 200) =>
        /\ {"answer", "search_type", "docs_retrieved", "retrieved_docs",
            "search_info"} \subseteq DOMAIN Resp.body
        /\ Resp.body.search_type = "semantic"

\* the session_id of the payload sent to the orchestrator
ForwardedSessionId == calls[CHOOSE i \in CallsTo("orchestrator") : TRUE].body.session_id

\* C15: in the hybrid route the session_id of every 200 response is the one
\* forwarded in the payload: the inbound one unchanged when there is one,
\* otherwise the single generated one.
C15_SessionForwardedAndEchoed ==
    (route = "hybrid" /\ Answered /\ Resp.status = 200) =>
        /\ Cardinality(CallsTo("orchestrator")) = 1
        /\ Resp.body.session_id = ForwardedSessionId
        /\ Truthy(session_id) => ForwardedSessionId = session_id.s
        /\ ~Truthy(session_id) => ForwardedSessionId \in UuidValues

C15_Witness ==
    /\ route = "hybrid" /\ Answered /\ Resp.status = 200
    /\ ~Truthy(session_id)
    /\ Resp.body.session_id \in UuidValues

\* C16: in the hybrid route the answer of every 200 response is non-empty,
\* and it is "No response received from the RAG system." when the
\* extraction yields no text.
C16_AnswerNeverEmpty ==
    HybridAnswered =>
        /\ Resp.body.answer # <<>>
        /\ \E n \in 1..Len(Resp.body.answer) : Resp.body.answer[n] # ""
        /\ Extract(responseText.json) = <<>> =>
              Resp.body.answer = <<"No response received from the RAG system.">>

C16_Witness ==
    /\ HybridAnswered
    /\ Extract(responseText.json) = <<>>
    /\ Truthy(responseText.json.outputs)

\* C17: in both routes every request gets exactly one response, and every
\* response whose status is not 200 has an object body with a string error
\* and without an answer.
C17_OneResponseErrorsShaped ==
    /\ Len(responses) <= 1
    /\ (pc = "done") <=> (Len(responses) = 1)
    /\ \A i \in 1..Len(responses) :
          responses[i].status # 200 =>
             /\ "error" \in DOMAIN responses[i].body
             /\ "answer" \notin DOMAIN responses[i].body
             /\ Len(responses[i].body.error) >= 1
             /\ \A n \in 1..Len(responses[i].body.error) :
                   responses[i].body.error[n] \in STRING

C17_Witness ==
    /\ route = "hybrid" /\ Answered
    /\ langflowResponse # Undefined /\ langflowResponse.t = "response"
    /\ Resp.status = 503 /\ langflowResponse.status = 503

\* the collaborators called so far, in the order of the calls
CallOrder == [i \in 1..Len(calls) |-> calls[i].to]

\* the embedding step failed: the provider rejected or sent no vector
EmbeddingFailed ==
    /\ CallsTo("embedding") # {} /\ queryVector = <<>>
    /\ caught # Undefined

\* the search step failed: the fetch rejected or the index refused
SearchStepFailed ==
    /\ searchResponse # Undefined
    /\ \/ searchResponse.t = "rejected"
       \/ /\ searchResponse.t = "response"
          /\ (searchResponse.status < 200 \/ searchResponse.status > 299)

\* the generation step failed
GenerationFailed == completion # Undefined /\ completion.t = "rejected"

\* C18: within one request of the semantic route the calls go out in the
\* order embedding, search, generation, each at most once, and after a step
\* has failed no later step is called and the request ends with an error
\* response.
C18_StepsInOrderStopOnFailure ==
    route = "semantic" =>
        /\ CallOrder \in { <<>>, <<"embedding">>, <<"embedding", "search">>,
                           <<"embedding", "search", "generation">> }
        /\ EmbeddingFailed => CallOrder = <<"embedding">>
        /\ SearchStepFailed => CallOrder = <<"embedding", "search">>
        /\ (EmbeddingFailed \/ SearchStepFailed \/ GenerationFailed) =>
              /\ pc \in {"searchText", "done"}
              /\ pc = "searchText" => searchResponse.t = "response"
              /\ pc = "done" =>
                    /\ Len(responses) = 1
                    /\ Resp.status \in {500, 502}
                    /\ "answer" \notin DOMAIN Resp.body

C18_Witness ==
    /\ route = "semantic" /\ pc = "done"
    /\ SearchStepFailed /\ searchResponse.t = "response"
    /\ CallOrder = <<"embedding", "search">>
    /\ Resp.status = 502

\* the body of the search request of the current request
SentQuery == calls[CHOOSE i \in CallsTo("search") : TRUE].body

\* the semantic route answered 200 with the retrieved documents
SemanticAnsweredWithDocs ==
    /\ route = "semantic" /\ Answered /\ Resp.status = 200
    /\ "retrieved_docs" \in DOMAIN Resp.body

\* C23: every search request of the semantic route has size = K and
\* knn k = K for the configured K, queries the configured vector field and
\* asks back text and file_path only; the query shown in search_info has
\* the same size, k, field and _source as the query sent.
C23_QueryShape ==
    route = "semantic" =>
        /\ \A i \in CallsTo("search") :
              /\ calls[i].body.size = env.OPENSEARCH_K
              /\ calls[i].body.knn.k = env.OPENSEARCH_K
              /\ calls[i].body.knn.field = <<"embeddings">>
              /\ calls[i].body.source = <<"text", "file_path">>
        /\ SemanticAnsweredWithDocs =>
              /\ Resp.body.search_info.k = SentQuery.size
              /\ Resp.body.search_info.query =
                    StringifyQuery([size |-> SentQuery.size,
                                    source |-> SentQuery.source,
                                    knn |-> [field |-> SentQuery.knn.field,
                                             vector |-> DisplayVector(SentQuery.knn.vector),
                                             k |-> SentQuery.knn.k]])

C23_Witness ==
    /\ SemanticAnsweredWithDocs
    /\ env.OPENSEARCH_K = 1
    /\ SentQuery.size = 1 /\ SentQuery.knn.k = 1

\* the configured username, password and the base64 of the pair
CredentialPieces ==
    (IF env.OPENSEARCH_USERNAME # Undefined THEN {env.OPENSEARCH_USERNAME.s[1]} ELSE {})
    \cup (IF env.OPENSEARCH_PASSWORD # Undefined THEN {env.OPENSEARCH_PASSWORD.s[1]} ELSE {})
    \cup {"YWRtaW46czNjcmV0", "YWRtaW46"}

\* the texts a response body of the semantic route holds
BodyTexts(b) ==
    (IF "error" \in DOMAIN b THEN {b.error} ELSE {})
    \cup (IF "answer" \in DOMAIN b THEN {b.answer} ELSE {})
    \cup (IF "search_info" \in DOMAIN b
          THEN {b.search_info.type, b.search_info.index,
                b.search_info.embedding_model, b.search_info.query}
          ELSE {})
    \cup (IF "retrieved_docs" \in DOMAIN b
          THEN UNION { {b.retrieved_docs[i].text, b.retrieved_docs[i].file_path} :
                         i \in 1..Len(b.retrieved_docs) }
          ELSE {})

\* C24: in the semantic route the search request has an Authorization
\* header exactly when a username is configured; the header is "Basic "
\* followed by the base64 of username:password (empty password when none is
\* configured); the credentials are neither in the request URL nor in a
\* response body.
C24_BasicAuthHeaderOnly ==
    route = "semantic" =>
        /\ \A i \in CallsTo("search") :
              /\ ("Authorization" \in DOMAIN calls[i].headers)
                    <=> (env.OPENSEARCH_USERNAME = Str(<<"admin">>))
              /\ "Authorization" \in DOMAIN calls[i].headers =>
                    calls[i].headers.Authorization =
                       IF env.OPENSEARCH_PASSWORD = Str(<<"s3cret">>)
                       THEN <<"Basic ", "YWRtaW46czNjcmV0">>
                       ELSE <<"Basic ", "YWRtaW46">>
              /\ \A piece \in CredentialPieces : ~Includes(calls[i].url, piece)
        /\ \A n \in 1..Len(responses) :
              \A text \in BodyTexts(responses[n].body) :
                 \A piece \in CredentialPieces : ~Includes(text, piece)

C24_Witness ==
    /\ SemanticAnsweredWithDocs
    /\ env.OPENSEARCH_USERNAME = Str(<<"admin">>)
    /\ env.OPENSEARCH_PASSWORD = Undefined
    /\ SentQuery.size = 2
    /\ calls[CHOOSE i \in CallsTo("search") : TRUE].headers.Authorization
          = <<"Basic ", "YWRtaW46">>

\* the hits the index returned for the current request
IndexHits == searchData.hits.hits.a

\* C26: in every response of the semantic route that carries retrieved_docs,
\* docs_retrieved is the length of retrieved_docs and the number of hits of
\* the index; entry i has rank i and the score of hit i, the hit's text as
\* it is up to 500 characters and else its first 500 characters followed by
\* "...", and the hit's file_path or "unknown".
C26_RetrievedDocsMirrorHits ==
    SemanticAnsweredWithDocs =>
        /\ Resp.body.docs_retrieved = Len(Resp.body.retrieved_docs)
        /\ Resp.body.docs_retrieved = Len(IndexHits)
        /\ \A i \in 1..Len(IndexHits) :
              /\ Resp.body.retrieved_docs[i].rank = i
              /\ Resp.body.retrieved_docs[i].score = IndexHits[i].score
              /\ Resp.body.retrieved_docs[i].text =
                    IF Len(IndexHits[i].text) <= 500
                    THEN IndexHits[i].text
                    ELSE SubSeq(IndexHits[i].text, 1, 500) \o <<"...">>
              /\ Resp.body.retrieved_docs[i].file_path =
                    IF IndexHits[i].file_path = Undefined
                    THEN <<"unknown">>
                    ELSE IndexHits[i].file_path.s

C26_Witness ==
    /\ SemanticAnsweredWithDocs
    /\ Len(IndexHits) = 2
    /\ Len(IndexHits[1].text) > 500 /\ Len(IndexHits[2].text) <= 500
    /\ IndexHits[1].file_path = Undefined

RECURSIVE InnersInOrder(_)
\* the inner outputs of an outputs array, in iteration order
InnersInOrder(outputs) ==
    IF Len(outputs) = 0 THEN <<>>
    ELSE (IF Truthy(outputs[1].outputs) THEN outputs[1].outputs.a ELSE <<>>)
         \o InnersInOrder(Tail(outputs))

\* the inner output has a non-empty text at one of the three paths
CarriesText(inner) == Truthy(inner.rmt) \/ Truthy(inner.rt) \/ Truthy(inner.mt)

\* results.message.text before results.text before message.text
PreferredText(inner) ==
    CASE Truthy(inner.rmt) -> inner.rmt.s
      [] ~Truthy(inner.rmt) /\ Truthy(inner.rt) -> inner.rt.s
      [] ~Truthy(inner.rmt) /\ ~Truthy(inner.rt) -> inner.mt.s

\* the hybrid route answered 200 from a body with an outputs array
NestedOutputsAnswered ==
    /\ HybridAnswered
    /\ Truthy(responseText.json.outputs)

\* the positions of the inner outputs that carry text
TextPositions ==
    {k \in 1..Len(InnersInOrder(responseText.json.outputs.a)) :
        CarriesText(InnersInOrder(responseText.json.outputs.a)[k])}

\* C27: in the hybrid route, with nested outputs of which several inner
\* outputs carry text, the answer is the text of the last of them in
\* iteration order, taken from results.message.text, else results.text, else
\* message.text.
C27_LastInnerOutputWins ==
    (NestedOutputsAnswered /\ TextPositions # {}) =>
        Resp.body.answer =
           PreferredText(InnersInOrder(responseText.json.outputs.a)
              [CHOOSE k \in TextPositions : \A m \in TextPositions : m <= k])

C27_Witness ==
    /\ NestedOutputsAnswered
    /\ TextPositions = {1, 2}
    /\ Len(responseText.json.outputs.a) = 2
    /\ ~Truthy(InnersInOrder(responseText.json.outputs.a)[2].rmt)
    /\ Truthy(InnersInOrder(responseText.json.outputs.a)[2].rt)
    /\ Resp.body.answer = InnersInOrder(responseText.json.outputs.a)[2].rt.s

----------------------------------------------------------------------------
\* Properties of the OpenSearch client

\* the clients built so far by the app's module, by the module text after
\* the script, and by the script
BuiltClients == {c \in {client, clientCopy, script.client} : c # Null}

\* OPENSEARCH_SSL_VERIFY is set to false
SkipVerifyFalse ==
    /\ processEnv.OPENSEARCH_SSL_VERIFY # Undefined
    /\ ToLowerCase(processEnv.OPENSEARCH_SSL_VERIFY.s) = FalseText

\* OPENSEARCH_SSL_REJECT_UNAUTHORIZED is set to true or to false
RejectFlagExplicit ==
    /\ processEnv.OPENSEARCH_SSL_REJECT_UNAUTHORIZED # Undefined
    /\ ToLowerCase(processEnv.OPENSEARCH_SSL_REJECT_UNAUTHORIZED.s)
          \in {TrueText, FalseText}

\* the value OPENSEARCH_SSL_REJECT_UNAUTHORIZED asks for
RejectFlag ==
    ToLowerCase(processEnv.OPENSEARCH_SSL_REJECT_UNAUTHORIZED.s) = TrueText

\* C19: with OPENSEARCH_SSL_VERIFY set to false every client, the app's and
\* the script's, is built with rejectUnauthorized = false, whatever
\* OPENSEARCH_SSL_REJECT_UNAUTHORIZED, NODE_ENV and the URL are.
C19_SkipVerifyAlwaysSkips ==
    SkipVerifyFalse =>
        \A c \in BuiltClients : c.ssl.rejectUnauthorized = FALSE

\* C20: OPENSEARCH_SSL_VERIFY = false wins over an explicit
\* OPENSEARCH_SSL_REJECT_UNAUTHORIZED, and with OPENSEARCH_SSL_VERIFY unset
\* an explicit OPENSEARCH_SSL_REJECT_UNAUTHORIZED (true or false) is the
\* rejectUnauthorized of every client, whatever NODE_ENV and the URL are.
C20_FlagPrecedence ==
    RejectFlagExplicit =>
        \A c \in BuiltClients :
            /\ SkipVerifyFalse => c.ssl.rejectUnauthorized = FALSE
            /\ processEnv.OPENSEARCH_SSL_VERIFY = Undefined =>
                  c.ssl.rejectUnauthorized = RejectFlag

\* neither OPENSEARCH_SSL_VERIFY nor OPENSEARCH_SSL_REJECT_UNAUTHORIZED is set
NoOverrideFlag ==
    /\ processEnv.OPENSEARCH_SSL_VERIFY = Undefined
    /\ processEnv.OPENSEARCH_SSL_REJECT_UNAUTHORIZED = Undefined

\* NODE_ENV is production
Production == processEnv.NODE_ENV = Str(<<"production">>)

\* the endpoint URL is an https one
HttpsEndpoint ==
    /\ processEnv.OPENSEARCH_URL # Undefined
    /\ StartsWith(ToLowerCase(Trim(processEnv.OPENSEARCH_URL.s)),
                  <<"h", "t", "t", "p", "s", ":", "/", "/">>)

\* C21: with neither override flag set, every client is built without
\* certificate verification when NODE_ENV is not production and the URL is an
\* https one, and with verification in production and for a URL that is not
\* https.
C21_DefaultByEnvironment ==
    NoOverrideFlag =>
        \A c \in BuiltClients :
            c.ssl.rejectUnauthorized = ~(~Production /\ HttpsEndpoint)

\* C22: over any sequence of getOpenSearchClient calls, with process.env
\* reassigned in between, each module runs new Client at most once: the
\* client exists exactly since that construction, and every call that
\* returns hands out that one client.
C22_ClientConstructedOnce ==
    /\ constructed.lib <= 1 /\ constructed.copy <= 1
    /\ (client # Null) <=> (constructed.lib = 1)
    /\ (clientCopy # Null) <=> (constructed.copy = 1)
    /\ (returned # Undefined /\ returned.t = "client") =>
          returned.value = IF returned.of = "lib" THEN client ELSE clientCopy
    /\ (returned # Undefined /\ returned.t = "throw") =>
          (IF returned.of = "lib" THEN client ELSE clientCopy) = Null

C22_Witness ==
    /\ returned # Undefined /\ returned.t = "client" /\ returned.of = "lib"
    /\ ~returned.created
    /\ NewClient # client
    /\ NewClient.node # <<>>

\* C25: for every environment the client of the index-creation script has
\* the node URL, the auth setting and the rejectUnauthorized value of the
\* client built by the app's getOpenSearchClient.
C25_ScriptConnectsLikeApp ==
    (client # Null /\ script.client # Null) =>
        /\ script.client.node = client.node
        /\ script.client.auth = client.auth
        /\ script.client.ssl.rejectUnauthorized = client.ssl.rejectUnauthorized

----------------------------------------------------------------------------
\* Properties of the chat page

\* the assistant messages shown so far
AssistantMessages == {i \in 1..Len(messages) : messages[i].role = "assistant"}

\* the requests sent whose answer or error has not been shown yet
InFlight == Len(requests) - Cardinality(AssistantMessages)

\* a submit would be refused in this state
SubmitRefused == isLoading \/ Trim(input) = <<>>

\* C28: the chat page has at most one request in flight; isLoading is true
\* exactly while a request is in flight; and while isLoading is true or the
\* trimmed input is empty no request is sent and no user message is added.
C28_OneRequestInFlight ==
    /\ [](InFlight \in {0, 1})
    /\ [](isLoading <=> (InFlight = 1))
    /\ [](isLoading <=> (uiPc # "idle"))
    /\ [][SubmitRefused =>
             /\ requests' = requests
             /\ \/ messages' = messages
                \/ /\ Len(messages') = Len(messages) + 1
                   /\ messages'[Len(messages')].role = "assistant"]_vars

C28_Witness ==
    /\ isLoading /\ InFlight = 1
    /\ Trim(input) # <<>>
    /\ Len(requests) = 1 /\ Len(messages) = 1
    /\ uiPc = "json"

\* the message shown for the way the last request settled
ExpectedAssistantContent ==
    IF uiResponse.t = "rejected"
    THEN Str(<<"Sorry, I encountered an error: ", "Failed to fetch">>)
    ELSE IF uiResponse.json = NotJson
    THEN Str(<<"Sorry, I encountered an error: ",
               "Unexpected token < in JSON at position 0">>)
    ELSE IF ~uiResponse.ok
    THEN Str(<<"Sorry, I encountered an error: ",
               IF uiResponse.json.error = Undefined
               THEN "Failed to get response"
               ELSE uiResponse.json.error.s[1]>>)
    ELSE uiResponse.json.answer

\* C29: every accepted submit adds one user message and, once its request
\* has settled, one assistant message: the answer of a success response, or
\* a text starting "Sorry, I encountered an error:" after a non-success
\* response, a rejected fetch or an unreadable body; isLoading is false
\* afterwards; the list alternates user, assistant, and shown messages stay.
C29_MessagesAlternate ==
    /\ [](\A i \in 1..Len(messages) :
            /\ messages[i].role = IF i % 2 = 1 THEN "user" ELSE "assistant"
            /\ i % 2 = 1 => messages[i].content = Str(requests[(i + 1) \div 2].body.message))
    /\ [](uiPc = "idle" => (Len(messages) = 2 * Len(requests) /\ ~isLoading))
    /\ [](uiPc # "idle" => Len(messages) = 2 * Len(requests) - 1)
    /\ []((uiPc = "idle" /\ uiResponse # Undefined) =>
             messages[Len(messages)].content = ExpectedAssistantContent)
    /\ [][/\ Len(messages') \in {Len(messages), Len(messages) + 1}
          /\ SubSeq(messages', 1, Len(messages)) = messages]_vars

C29_Witness ==
    /\ uiPc = "idle" /\ ~isLoading
    /\ Len(messages) = 4
    /\ messages[2].content = Str(<<"Sorry, I encountered an error: ", "Failed to fetch">>)
    /\ messages[4].content = Str(<<"The APR is 19.9%.">>)

----------------------------------------------------------------------------
\* Properties of the index-creation script

\* the script has entered main()
InMain == script.pc \in {"create", "sleep"} \/ (script.pc = "exit" /\ "outcomes" \in DOMAIN script)

\* the failure is a 503 or a cluster_manager_not_discovered_exception
Unavailable(o) ==
    /\ o.t = "error"
    /\ \/ o.err.status = Num(503)
       \/ o.err.type = Str(<<"cluster_manager_not_discovered_exception">>)

\* the failure says that the index exists already
AlreadyThere(o) ==
    /\ o.t = "error"
    /\ \/ o.err.type = Str(<<"resource_already_exists_exception">>)
       \/ /\ o.err.status = Num(400) /\ o.err.reason # Undefined
          /\ "already exists" \in Range(o.err.reason.s)

\* what the attempts made so far allow: nothing was tried again except
\* after an unavailable cluster, and the run has ended as the last attempt says
AttemptsInOrder ==
    InMain =>
        /\ Len(script.outcomes) <= 3
        /\ \A i \in 1..(Len(script.outcomes) - 1) :
              Unavailable(script.outcomes[i]) /\ ~AlreadyThere(script.outcomes[i])
        /\ script.pc = "sleep" =>
              /\ Len(script.outcomes) \in {1, 2}
              /\ Unavailable(script.outcomes[Len(script.outcomes)])
              /\ ~AlreadyThere(script.outcomes[Len(script.outcomes)])
        /\ script.pc = "exit" =>
              /\ Len(script.outcomes) >= 1
              /\ script.code =
                    IF \/ script.outcomes[Len(script.outcomes)].t = "created"
                       \/ AlreadyThere(script.outcomes[Len(script.outcomes)])
                    THEN 0 ELSE 1
              /\ ( /\ Unavailable(script.outcomes[Len(script.outcomes)])
                   /\ ~AlreadyThere(script.outcomes[Len(script.outcomes)]) )
                    => Len(script.outcomes) = 3

\* C30: the script always ends, after at most 3 create attempts: it tries
\* again only after a 503 / cluster_manager_not_discovered failure and only
\* before the third attempt; an already-exists failure ends the run with
\* success at once; any other failure, and a 503 on the third attempt, end
\* it with exit code 1.
C30_ScriptTerminates ==
    /\ []AttemptsInOrder
    /\ <>(script.pc = "exit")

C30_Witness ==
    /\ script.pc = "exit" /\ script.code = 0
    /\ Len(script.outcomes) = 3
    /\ Unavailable(script.outcomes[1]) /\ Unavailable(script.outcomes[2])
    /\ AlreadyThere(script.outcomes[3]) /\ script.outcomes[3].err.status = Num(503)

Spec == Init /\ [][Next]_vars

SpecProcess == InitProcess /\ [][NextProcess]_vars

SpecUi == InitUi /\ [][NextUi]_vars

\* the script's process keeps running until it exits
SpecScript == InitClient /\ [][NextScript]_vars /\ WF_vars(NextScript)

SpecClient == InitClient /\ [][NextClient]_vars

====
